---- MODULE Spec2Model ----
(***************************************************************************)
(* Model of the review-comment workflow of ai-guardrails:                  *)
(*   lib/python/guardrails/comments.py  (fetch / filter / reply / resolve) *)
(*   lib/python/coderabbit_parser.py    (dedup key, merge, summary)        *)
(*                                                                         *)
(* Python strings that the code inspects (lower, strip, startswith,        *)
(* removesuffix, slicing) are sequences of one-character strings; strings  *)
(* that are only compared for equality (thread ids, paths) stay TLA+       *)
(* strings.  None is the one-element sequence <<"None">> where a string is *)
(* expected and NoneInt where an integer is expected.                      *)
(***************************************************************************)
EXTENDS Integers, Sequences, FiniteSets, TLC

VARIABLES
    pages,        \* GitHub side: the PR's review-thread nodes, page by page
    call,         \* the call being executed and its arguments
    pc,           \* position inside the called function
    pr,           \* run_comments: pr (NoneInt until detected)
    all_threads,  \* run_comments: all_threads / resolve_threads: threads
    filtered,     \* run_comments: filtered (the list handed to resolve_threads)
    idx,          \* resolve_threads: position of the for loop (1-based)
    resolved,     \* resolve_threads: resolved counter
    failed,       \* resolve_threads: failed counter
    calls,        \* subprocess.run calls made so far, in order, with outcome
    err,          \* messages printed to stderr, in order
    out,          \* threads printed to stdout by the listing
    rc,           \* run_comments' return value (RcNone while running)
    raised,       \* the exception that ended the call ("" when none)
    reply_body,   \* resolve_threads: reply_body
    fin,          \* pure-function checks: the input drawn
    fout          \* pure-function checks: the result computed

vars == <<pages, call, pc, pr, all_threads, filtered, idx, resolved, failed,
          calls, err, out, rc, raised, reply_body, fin, fout>>

-----------------------------------------------------------------------------
(* Python values                                                           *)

None == <<"None">>
NoneInt == -1
RcNone == -2

\* bool(s) of an optional string: None and "" are falsy
Truthy(s) == s # None /\ s # <<>>

\* bool(n) of an optional integer: None and 0 are falsy
TruthyInt(n) == n # NoneInt /\ n # 0

Whitespace == {" ", "\t", "\n"}

LowerChar(c) ==
    CASE c = "A" -> "a" [] c = "B" -> "b" [] c = "C" -> "c" [] c = "D" -> "d"
      [] c = "E" -> "e" [] c = "F" -> "f" [] c = "G" -> "g" [] c = "H" -> "h"
      [] c = "I" -> "i" [] c = "J" -> "j" [] c = "K" -> "k" [] c = "L" -> "l"
      [] c = "M" -> "m" [] c = "N" -> "n" [] c = "O" -> "o" [] c = "P" -> "p"
      [] c = "Q" -> "q" [] c = "R" -> "r" [] c = "S" -> "s" [] c = "T" -> "t"
      [] c = "U" -> "u" [] c = "V" -> "v" [] c = "W" -> "w" [] c = "X" -> "x"
      [] c = "Y" -> "y" [] c = "Z" -> "z" [] OTHER -> c

\* str.lower()
Lower(s) == [i \in 1..Len(s) |-> LowerChar(s[i])]

RECURSIVE LStrip(_)
LStrip(s) == IF s # <<>> /\ Head(s) \in Whitespace THEN LStrip(Tail(s)) ELSE s

RECURSIVE RStrip(_)
RStrip(s) ==
    IF s # <<>> /\ s[Len(s)] \in Whitespace
    THEN RStrip(SubSeq(s, 1, Len(s) - 1)) ELSE s

\* str.strip()
Strip(s) == RStrip(LStrip(s))

\* str.startswith(p)
StartsWith(s, p) == Len(s) >= Len(p) /\ SubSeq(s, 1, Len(p)) = p

\* str.endswith(p)
EndsWith(s, p) == Len(s) >= Len(p) /\ SubSeq(s, Len(s) - Len(p) + 1, Len(s)) = p

\* str.removesuffix(p)
RemoveSuffix(s, p) ==
    IF p # <<>> /\ EndsWith(s, p) THEN SubSeq(s, 1, Len(s) - Len(p)) ELSE s

\* s[:n] for n >= 0
Prefix(s, n) == SubSeq(s, 1, IF n < Len(s) THEN n ELSE Len(s))

\* str.split(sep) for a one-character separator
RECURSIVE SplitFrom(_, _, _)
SplitFrom(s, sep, cur) ==
    IF s = <<>> THEN <<cur>>
    ELSE IF Head(s) = sep THEN <<cur>> \o SplitFrom(Tail(s), sep, <<>>)
    ELSE SplitFrom(Tail(s), sep, Append(cur, Head(s)))

Split(s, sep) == SplitFrom(s, sep, <<>>)

\* the elements of a list, as a set
Range(s) == {s[i] : i \in 1..Len(s)}

\* s[:k] of Python, k of either sign
PySliceTo(s, k) ==
    IF k >= 0 THEN Prefix(s, k)
    ELSE SubSeq(s, 1, IF Len(s) + k > 0 THEN Len(s) + k ELSE 0)

-----------------------------------------------------------------------------
(* comments.py: constants                                                  *)

COMPACT_PREVIEW_LENGTH == 80
JSON_PREVIEW_LENGTH == 120

StrBotSuffix == <<"[", "b", "o", "t", "]">>
StrUnknown == <<"u", "n", "k", "n", "o", "w", "n">>
StrEllipsis == <<".", ".", ".">>
StrCoderabbit == <<"c", "o", "d", "e", "r", "a", "b", "b", "i", "t">>
StrCoderabbitai == <<"c", "o", "d", "e", "r", "a", "b", "b", "i", "t", "a", "i">>
StrDeepsource == <<"d", "e", "e", "p", "s", "o", "u", "r", "c", "e">>
StrDeepsourceIo ==
    <<"d", "e", "e", "p", "s", "o", "u", "r", "c", "e", "-", "i", "o">>
StrGemini == <<"g", "e", "m", "i", "n", "i">>
StrGeminiCodeAssist ==
    <<"g", "e", "m", "i", "n", "i", "-", "c", "o", "d", "e", "-",
      "a", "s", "s", "i", "s", "t">>
StrClaude == <<"c", "l", "a", "u", "d", "e">>

\* BOT_ALIASES, in the dict's insertion order
BOT_ALIASES ==
    << <<StrCoderabbit, StrCoderabbitai>>,
       <<StrDeepsource, StrDeepsourceIo>>,
       <<StrGemini, StrGeminiCodeAssist>>,
       <<StrClaude, StrClaude>> >>

-----------------------------------------------------------------------------
(* comments.py: thread parsing                                             *)

\* s with the characters at the positions that satisfy Dropped(_) left out
KeepPositions(s, Dropped(_)) ==
    LET indexed == [i \in 1..Len(s) |-> <<i, s[i]>>]
        Kept(p) == ~Dropped(p[1])
        kept == SelectSeq(indexed, Kept)
    IN [k \in 1..Len(kept) |-> kept[k][2]]

\* re.sub(r"<[^>]*>", "", body): a "<" with a later ">" is removed together
\* with everything up to the first ">" after it; position i goes when some
\* "<" at or before it has its first later ">" at or after it
StripTags(s) ==
    LET InTag(i) ==
          \E j \in 1..i :
             /\ s[j] = "<"
             /\ \A k \in j..(i - 1) : s[k] # ">"
             /\ \E k \in i..Len(s) : k > j /\ s[k] = ">"
    IN KeepPositions(s, InTag)

\* re.sub(r"\n+", " ", text) followed by re.sub(r"\s+", " ", text): every
\* maximal run of whitespace becomes one space
CollapseWhitespace(s) ==
    LET spaced == [i \in 1..Len(s) |-> IF s[i] \in Whitespace THEN " " ELSE s[i]]
        Repeated(i) == i > 1 /\ spaced[i] = " " /\ spaced[i - 1] = " "
    IN KeepPositions(spaced, Repeated)

_clean_body(body) == Strip(CollapseWhitespace(StripTags(body)))

_truncate(text, length) ==
    IF Len(text) <= length THEN text
    ELSE PySliceTo(text, length - 3) \o StrEllipsis

\* the results of parse_thread that are not a thread
NoThread == [kind |-> "None"]
AttributeError == [kind |-> "AttributeError"]

\* first.get("author", {}).get("login", "unknown"): a node's author is
\* [login |-> s], "null" (a deleted account) or "missing" (no such key)
AuthorMissing == [key |-> "missing"]
AuthorNull == [key |-> "null"]

parse_thread(node) ==
    IF node.comments.nodes = <<>> THEN NoThread
    ELSE LET first == node.comments.nodes[1] IN
         IF first.author = AuthorNull THEN AttributeError
         ELSE LET author == IF first.author = AuthorMissing THEN StrUnknown
                            ELSE first.author.login
              IN [kind |-> "thread",
                  thread_id |-> node.id,
                  comment_id |-> first.databaseId,
                  bot |-> RemoveSuffix(author, StrBotSuffix),
                  path |-> first.path,
                  line |-> first.line,
                  start_line |-> first.startLine,
                  resolved |-> node.isResolved,
                  body_preview |-> _clean_body(first.body),
                  created_at |-> first.createdAt,
                  reply_count |-> node.comments.totalCount - 1]

RECURSIVE AliasLookup(_, _)
AliasLookup(aliases, lower) ==
    IF aliases = <<>> THEN None
    ELSE IF Head(aliases)[1] = lower THEN Head(aliases)[2]
    ELSE AliasLookup(Tail(aliases), lower)

RECURSIVE LoginLookup(_, _)
LoginLookup(aliases, lower) ==
    IF aliases = <<>> THEN None
    ELSE IF lower = Lower(Head(aliases)[2]) THEN Head(aliases)[2]
    ELSE LoginLookup(Tail(aliases), lower)

_resolve_bot_name(name) ==
    LET lower == RemoveSuffix(Lower(name), StrBotSuffix) IN
    IF AliasLookup(BOT_ALIASES, lower) # None
    THEN AliasLookup(BOT_ALIASES, lower)
    ELSE IF LoginLookup(BOT_ALIASES, lower) # None
    THEN LoginLookup(BOT_ALIASES, lower)
    ELSE lower

-----------------------------------------------------------------------------
(* comments.py: filtering                                                  *)

\* bots is None or a list of names; an empty list is falsy
NoBots == << None >>

KeepUnresolved(t) == ~t.resolved

\* a filter whose status test is inverted
filter_threads_KeepsResolved(threads, bots, unresolved_only) ==
    LET KeepResolved(t) == t.resolved
        result1 == IF unresolved_only THEN SelectSeq(threads, KeepResolved)
                   ELSE threads
        resolved_names == {_resolve_bot_name(b) : b \in Range(bots)}
        KeepBot(t) == t.bot \in resolved_names
    IN IF bots # NoBots /\ bots # <<>> THEN SelectSeq(result1, KeepBot)
       ELSE result1

filter_threads(threads, bots, unresolved_only) ==
    LET result1 == IF unresolved_only THEN SelectSeq(threads, KeepUnresolved)
                   ELSE threads
        resolved_names == {_resolve_bot_name(b) : b \in Range(bots)}
        KeepBot(t) == t.bot \in resolved_names
    IN IF bots # NoBots /\ bots # <<>> THEN SelectSeq(result1, KeepBot)
       ELSE result1

-----------------------------------------------------------------------------
(* comments.py: output formatting                                          *)

_build_summary(threads) ==
    [total |-> Len(threads),
     unresolved |-> Cardinality({i \in 1..Len(threads) : ~threads[i].resolved}),
     by_bot |-> [b \in {threads[i].bot : i \in 1..Len(threads)} |->
                   Cardinality({i \in 1..Len(threads) : threads[i].bot = b})]]

RECURSIVE ReverseLookup(_, _)
ReverseLookup(aliases, login) ==
    IF aliases = <<>> THEN login
    ELSE IF Head(aliases)[2] = login THEN Head(aliases)[1]
    ELSE ReverseLookup(Tail(aliases), login)

_short_bot_name(login) == ReverseLookup(BOT_ALIASES, login)

\* one line per thread; the file:line column is not modelled
format_compact(threads) ==
    [summary |-> _build_summary(threads),
     threads |-> [i \in 1..Len(threads) |->
        [thread_id |-> threads[i].thread_id,
         bot |-> _short_bot_name(threads[i].bot),
         body_preview |-> _truncate(threads[i].body_preview,
                                    COMPACT_PREVIEW_LENGTH),
         resolved |-> threads[i].resolved]]]

format_json(threads) ==
    [summary |-> _build_summary(threads),
     threads |-> [i \in 1..Len(threads) |->
        [threads[i] EXCEPT !.body_preview =
            _truncate(threads[i].body_preview, JSON_PREVIEW_LENGTH)]]]

-----------------------------------------------------------------------------
(* Bounds and the inputs drawn                                             *)

MaxThreads == 2

ThreadIdOf(i) ==
    CASE i = 1 -> "PRRT_a" [] i = 2 -> "PRRT_b" [] i = 3 -> "PRRT_c"
      [] OTHER -> "PRRT_d"

StrCoderabbitaiBot == StrCoderabbitai \o StrBotSuffix
StrClaudeBot == StrClaude \o StrBotSuffix
StrBodyText ==
    <<"F", "i", "x", " ", "<", "b", ">", "i", "t", "<", "/", "b", ">", ".", "\n">>
StrAcknowledged ==
    <<"A", "c", "k", "n", "o", "w", "l", "e", "d", "g", "e", "d">>
StrFixedIn == <<"F", "i", "x", "e", "d", " ", "i", "n", " ", "a", "b", "c">>
StrBotArgCoderabbit == <<"C", "o", "d", "e", "r", "a", "b", "b", "i", "t">>
StrBotArgClaude == <<"c", "l", "a", "u", "d", "e", ",", ",">>

\* what a review-thread node can look like: resolved or not, first comment
\* with or without a databaseId, its author, or no comment at all
NodeShapes ==
    { [isResolved |-> FALSE, dbid |-> TRUE,  empty |-> FALSE,
       author |-> [login |-> StrCoderabbitaiBot]],
      [isResolved |-> FALSE, dbid |-> TRUE,  empty |-> FALSE,
       author |-> [login |-> StrClaudeBot]],
      [isResolved |-> TRUE,  dbid |-> TRUE,  empty |-> FALSE,
       author |-> [login |-> StrCoderabbitaiBot]],
      [isResolved |-> FALSE, dbid |-> FALSE, empty |-> FALSE,
       author |-> [login |-> StrClaudeBot]],
      [isResolved |-> FALSE, dbid |-> TRUE,  empty |-> TRUE,
       author |-> AuthorMissing],
      [isResolved |-> FALSE, dbid |-> TRUE,  empty |-> FALSE,
       author |-> AuthorNull] }

\* the databaseId of the first comment of the i-th thread
CommentIdOf(i) == 1000 + i

MkNode(i, sh) ==
    [id |-> ThreadIdOf(i),
     isResolved |-> sh.isResolved,
     comments |->
       [totalCount |-> IF sh.empty THEN 0 ELSE 1,
        nodes |-> IF sh.empty THEN <<>>
                  ELSE << [databaseId |-> IF sh.dbid THEN CommentIdOf(i)
                                          ELSE NoneInt,
                           author |-> sh.author,
                           body |-> StrBodyText,
                           path |-> "lib/foo.py",
                           line |-> 10,
                           startLine |-> NoneInt,
                           createdAt |-> "2026-02-15T10:00:00Z"] >>]]

\* the PR's review threads: up to MaxThreads nodes with distinct ids
NodeListsOf(shapes) ==
    UNION { { [i \in 1..n |-> MkNode(i, f[i])] : f \in [1..n -> shapes] }
            : n \in 0..MaxThreads }

NodeLists == NodeListsOf(NodeShapes)

\* GitHub serves reviewThreads in pages (at most 100 nodes each, the
\* `first: 100` of the query); every page but the last has hasNextPage = true.
\* A page here holds k >= 1 of the nodes, standing for a full page of 100.
PagesOf(nodes) ==
    { <<nodes>> } \cup
    { <<SubSeq(nodes, 1, k), SubSeq(nodes, k + 1, Len(nodes))>> :
        k \in 1..(Len(nodes) - 1) }

RECURSIVE Flatten(_)
Flatten(ps) == IF ps = <<>> THEN <<>> ELSE Head(ps) \o Flatten(Tail(ps))

\* the optional (thread_id, body) arguments
NoAction == [given |-> FALSE, thread_id |-> "", body |-> None]
Action(tid, body) == [given |-> TRUE, thread_id |-> tid, body |-> body]

TargetIds == {ThreadIdOf(1), ThreadIdOf(2), "PRRT_nonexistent"}
Bodies == {None, <<>>, StrAcknowledged, StrFixedIn}
BotArgs == {None, StrBotArgCoderabbit, StrBotArgClaude}
PrArgs == {NoneInt, 31}

\* resolve_all_body is not a parameter of run_comments: Absent when the
\* caller does not pass the keyword
Absent == <<"Absent">>

RunCommentsCall(p, bot, reply, resolve, resolve_all, rab, show_all, json) ==
    [fn |-> "run_comments", pr |-> p, bot |-> bot, reply |-> reply,
     resolve |-> resolve, resolve_all |-> resolve_all,
     resolve_all_body |-> rab, show_all |-> show_all, output_json |-> json]

ListingCalls ==
    { RunCommentsCall(p, bot, NoAction, NoAction, FALSE, Absent, sa, js) :
        p \in PrArgs, bot \in BotArgs, sa \in BOOLEAN, js \in BOOLEAN }

ReplyCalls ==
    { RunCommentsCall(p, None, Action(tid, StrFixedIn), rs, ra, Absent,
                      FALSE, FALSE) :
        p \in PrArgs, tid \in TargetIds,
        rs \in {NoAction, Action(ThreadIdOf(1), StrFixedIn)}, ra \in BOOLEAN }

ResolveCalls ==
    { RunCommentsCall(p, None, NoAction, Action(tid, body), ra, Absent,
                      FALSE, FALSE) :
        p \in PrArgs, tid \in TargetIds, body \in Bodies, ra \in BOOLEAN }

ResolveAllCalls ==
    { RunCommentsCall(p, bot, NoAction, NoAction, TRUE, rab, FALSE, FALSE) :
        p \in PrArgs, bot \in BotArgs, rab \in {Absent} \cup Bodies }

\* resolve_threads called directly: any thread list, any reply_body
ResolveThreadsCalls ==
    { [fn |-> "resolve_threads", reply_body |-> body] : body \in Bodies }

-----------------------------------------------------------------------------
(* comments.py: the GitHub calls and run_comments                          *)

\* one subprocess.run call: which gh command, for what, and its outcome
GhCall(cmd, thread_id, comment_id, body, ok) ==
    [cmd |-> cmd, thread_id |-> thread_id, comment_id |-> comment_id,
     body |-> body, ok |-> ok]

ParseAll(nodes) == [i \in 1..Len(nodes) |-> parse_thread(nodes[i])]

IsThread(p) == p.kind = "thread"

\* fetch_threads on a successful response: the query asks for
\* reviewThreads(first: 100) once, without cursor, and the jq filter keeps
\* the nodes of that response only
FetchedNodes(ps) == ps[1]

\* next((t for t in all_threads if t["thread_id"] == thread_id), None)
FindThread(threads, thread_id) ==
    LET hits == {i \in 1..Len(threads) : threads[i].thread_id = thread_id}
    IN IF hits = {} THEN NoThread
       ELSE threads[CHOOSE i \in hits : \A j \in hits : i <= j]

\* [b.strip() for b in bot.split(",")] if bot else None
BotList(bot) ==
    IF Truthy(bot)
    THEN LET parts == Split(bot, ",") IN [i \in 1..Len(parts) |-> Strip(parts[i])]
    ELSE NoBots

Return(code) == /\ rc' = code
                /\ pc' = "done"

Raise(exc) == /\ raised' = exc
              /\ pc' = "done"
              /\ UNCHANGED rc

Init ==
    /\ \E nodes \in NodeLists : pages \in PagesOf(nodes)
    /\ call \in ListingCalls \cup ReplyCalls \cup ResolveCalls
                \cup ResolveAllCalls \cup ResolveThreadsCalls
    /\ IF call.fn = "resolve_threads"
       THEN /\ pc = "loop"
            /\ pr = 31
            /\ filtered = SelectSeq(ParseAll(Flatten(pages)), IsThread)
            /\ reply_body = call.reply_body
       ELSE /\ pc = "start"
            /\ pr = call.pr
            /\ filtered = <<>>
            /\ reply_body = None
    /\ all_threads = <<>>
    /\ idx = 1
    /\ resolved = 0
    /\ failed = 0
    /\ calls = <<>>
    /\ err = <<>>
    /\ out = <<>>
    /\ rc = RcNone
    /\ raised = ""
    /\ fin = <<>>
    /\ fout = <<>>

\* run_comments(..., resolve_all_body=...): the function has no such
\* parameter, so the call raises TypeError before its body runs
UnexpectedKeyword ==
    /\ pc = "start"
    /\ call.fn = "run_comments"
    /\ call.resolve_all_body # Absent
    /\ Raise("TypeError")
    /\ UNCHANGED <<pages, call, pr, all_threads, filtered, idx, resolved, failed,
                   calls, err, out, reply_body, fin, fout>>

\* pr is None: _get_pr_number()
GetPrNumber ==
    /\ pc = "start"
    /\ call.fn = "run_comments"
    /\ call.resolve_all_body = Absent
    /\ pr = NoneInt
    /\ \E outcome \in {"error", "empty", "not_a_number", "number"} :
         /\ calls' = Append(calls, GhCall("pr view", "", NoneInt, None,
                                          outcome # "error"))
         /\ IF outcome = "number"
            THEN /\ pr' = 42
                 /\ pc' = "repo"
                 /\ UNCHANGED <<err, rc>>
            ELSE /\ err' = Append(err, "Error: No PR found for current branch")
                 /\ Return(1)
                 /\ UNCHANGED pr
    /\ UNCHANGED <<pages, call, all_threads, filtered, idx, resolved, failed, out,
                   raised, reply_body, fin, fout>>

\* a run that goes on to fetch the threads although _get_repo_info() failed
GetRepoInfo_FetchesAnyway ==
    /\ call.fn = "run_comments"
    /\ \/ pc = "repo"
       \/ pc = "start" /\ call.resolve_all_body = Absent /\ pr # NoneInt
    /\ \E outcome \in {"error", "malformed", "owner repo"} :
         /\ calls' = Append(calls, GhCall("repo view", "", NoneInt, None,
                                          outcome # "error"))
         /\ pc' = "fetch"
         /\ err' = IF outcome = "owner repo" THEN err
                   ELSE Append(err, "Error: Could not determine repository info")
         /\ UNCHANGED rc
    /\ UNCHANGED <<pages, call, pr, all_threads, filtered, idx, resolved, failed,
                   out, raised, reply_body, fin, fout>>

\* _get_repo_info()
GetRepoInfo ==
    /\ call.fn = "run_comments"
    /\ \/ pc = "repo"
       \/ pc = "start" /\ call.resolve_all_body = Absent /\ pr # NoneInt
    /\ \E outcome \in {"error", "malformed", "owner repo"} :
         /\ calls' = Append(calls, GhCall("repo view", "", NoneInt, None,
                                          outcome # "error"))
         /\ IF outcome = "owner repo"
            THEN /\ pc' = "fetch"
                 /\ UNCHANGED <<err, rc>>
            ELSE /\ err' = Append(err, "Error: Could not determine repository info")
                 /\ Return(1)
    /\ UNCHANGED <<pages, call, pr, all_threads, filtered, idx, resolved, failed,
                   out, raised, reply_body, fin, fout>>

\* a fetch that gives up with exit code 1 when the GraphQL call fails
FetchThreads_FailsOnError ==
    /\ pc = "fetch"
    /\ \E outcome \in {"error", "invalid_json", "nodes"} :
         /\ calls' = Append(calls, GhCall("graphql threads", "", NoneInt, None,
                                          outcome # "error"))
         /\ IF outcome \in {"error", "invalid_json"}
            THEN /\ err' = Append(err, "Warning: Failed to fetch review threads via GraphQL")
                 /\ all_threads' = <<>>
                 /\ Return(1)
                 /\ UNCHANGED raised
            ELSE LET parsed == ParseAll(FetchedNodes(pages)) IN
                 IF AttributeError \in Range(parsed)
                 THEN /\ raised' = "AttributeError"
                      /\ pc' = "done"
                      /\ UNCHANGED <<err, all_threads, rc>>
                 ELSE /\ all_threads' = SelectSeq(parsed, IsThread)
                      /\ pc' = "act"
                      /\ UNCHANGED <<err, raised, rc>>
    /\ UNCHANGED <<pages, call, pr, filtered, idx, resolved, failed, out,
                   reply_body, fin, fout>>

\* all_threads = fetch_threads(owner, repo, pr)
FetchThreads ==
    /\ pc = "fetch"
    /\ \E outcome \in {"error", "invalid_json", "nodes"} :
         /\ calls' = Append(calls, GhCall("graphql threads", "", NoneInt, None,
                                          outcome # "error"))
         /\ IF outcome = "error"
            THEN /\ err' = Append(err, "Warning: Failed to fetch review threads via GraphQL")
                 /\ all_threads' = <<>>
                 /\ pc' = "act"
                 /\ UNCHANGED raised
            ELSE IF outcome = "invalid_json"
            THEN /\ err' = Append(err, "Warning: Invalid JSON from GraphQL response")
                 /\ all_threads' = <<>>
                 /\ pc' = "act"
                 /\ UNCHANGED raised
            ELSE LET parsed == ParseAll(FetchedNodes(pages)) IN
                 IF AttributeError \in Range(parsed)
                 THEN /\ raised' = "AttributeError"
                      /\ pc' = "done"
                      /\ UNCHANGED <<err, all_threads>>
                 ELSE /\ all_threads' = SelectSeq(parsed, IsThread)
                      /\ pc' = "act"
                      /\ UNCHANGED <<err, raised>>
    /\ UNCHANGED <<pages, call, pr, filtered, idx, resolved, failed, out, rc,
                   reply_body, fin, fout>>

\* a reply branch that reports success whatever reply_to_thread returned
HandleReply_AlwaysZero ==
    /\ pc = "act"
    /\ call.reply.given
    /\ LET target == FindThread(all_threads, call.reply.thread_id) IN
       IF target = NoThread
       THEN /\ err' = Append(err, "Error: Thread not found")
            /\ Return(1)
            /\ UNCHANGED calls
       ELSE IF target.comment_id = NoneInt
       THEN /\ err' = Append(err, "Error: Thread has no comment ID for reply")
            /\ Return(1)
            /\ UNCHANGED calls
       ELSE \E ok \in BOOLEAN :
            /\ calls' = Append(calls, GhCall("reply", target.thread_id,
                                 target.comment_id, call.reply.body, ok))
            /\ err' = IF ok THEN err
                      ELSE Append(err, "Error: Failed to reply to comment")
            /\ Return(0)
    /\ UNCHANGED <<pages, call, pr, all_threads, filtered, idx, resolved, failed,
                   out, raised, reply_body, fin, fout>>

\* if reply is not None: ...
HandleReply ==
    /\ pc = "act"
    /\ call.reply.given
    /\ LET target == FindThread(all_threads, call.reply.thread_id) IN
       IF target = NoThread
       THEN /\ err' = Append(err, "Error: Thread not found")
            /\ Return(1)
            /\ UNCHANGED calls
       ELSE IF target.comment_id = NoneInt
       THEN /\ err' = Append(err, "Error: Thread has no comment ID for reply")
            /\ Return(1)
            /\ UNCHANGED calls
       ELSE \E ok \in BOOLEAN :
            /\ calls' = Append(calls, GhCall("reply", target.thread_id,
                                 target.comment_id, call.reply.body, ok))
            /\ err' = IF ok THEN err
                      ELSE Append(err, "Error: Failed to reply to comment")
            /\ Return(IF ok THEN 0 ELSE 1)
    /\ UNCHANGED <<pages, call, pr, all_threads, filtered, idx, resolved, failed,
                   out, raised, reply_body, fin, fout>>

ResolveSelected == pc = "act" /\ ~call.reply.given /\ call.resolve.given

\* if resolve is not None: the thread is not among all_threads
ResolveNotFound ==
    /\ ResolveSelected
    /\ FindThread(all_threads, call.resolve.thread_id) = NoThread
    /\ err' = Append(err, "Error: Thread not found")
    /\ Return(1)
    /\ UNCHANGED <<pages, call, pr, all_threads, filtered, idx, resolved, failed,
                   calls, out, raised, reply_body, fin, fout>>

\* if body and target["comment_id"]: reply_to_thread(...), result dropped
ResolveReply ==
    /\ ResolveSelected
    /\ LET target == FindThread(all_threads, call.resolve.thread_id) IN
       /\ target # NoThread
       /\ Truthy(call.resolve.body)
       /\ TruthyInt(target.comment_id)
       /\ \E ok \in BOOLEAN :
            /\ calls' = Append(calls, GhCall("reply", target.thread_id,
                                 target.comment_id, call.resolve.body, ok))
            /\ err' = IF ok THEN err
                      ELSE Append(err, "Error: Failed to reply to comment")
    /\ pc' = "resolve"
    /\ UNCHANGED <<pages, call, pr, all_threads, filtered, idx, resolved, failed,
                   out, rc, raised, reply_body, fin, fout>>

\* ok = resolve_thread(thread_id); return 0 if ok else 1
ResolveMutation ==
    /\ \/ pc = "resolve"
       \/ /\ ResolveSelected
          /\ LET target == FindThread(all_threads, call.resolve.thread_id) IN
             /\ target # NoThread
             /\ ~(Truthy(call.resolve.body) /\ TruthyInt(target.comment_id))
    /\ \E ok \in BOOLEAN :
         /\ calls' = Append(calls, GhCall("resolve", call.resolve.thread_id,
                                          NoneInt, None, ok))
         /\ err' = IF ok THEN err
                   ELSE Append(err, "Error: Failed to resolve thread")
         /\ Return(IF ok THEN 0 ELSE 1)
    /\ UNCHANGED <<pages, call, pr, all_threads, filtered, idx, resolved, failed,
                   out, raised, reply_body, fin, fout>>

\* a resolve-all that takes every unresolved thread, whatever its bot
ResolveAll_EveryBot ==
    /\ pc = "act"
    /\ ~call.reply.given
    /\ ~call.resolve.given
    /\ call.resolve_all
    /\ LET f == filter_threads(all_threads, NoBots, TRUE) IN
       /\ filtered' = f
       /\ IF f = <<>>
          THEN /\ err' = Append(err, "No unresolved threads to resolve")
               /\ Return(0)
          ELSE /\ pc' = "loop"
               /\ UNCHANGED <<err, rc>>
    /\ UNCHANGED <<pages, call, pr, all_threads, idx, resolved, failed, calls,
                   out, raised, reply_body, fin, fout>>

\* if resolve_all: filter, then resolve_threads(owner, repo, pr, filtered)
ResolveAll ==
    /\ pc = "act"
    /\ ~call.reply.given
    /\ ~call.resolve.given
    /\ call.resolve_all
    /\ LET f == filter_threads(all_threads, BotList(call.bot), TRUE) IN
       /\ filtered' = f
       /\ IF f = <<>>
          THEN /\ err' = Append(err, "No unresolved threads to resolve")
               /\ Return(0)
          ELSE /\ pc' = "loop"
               /\ UNCHANGED <<err, rc>>
    /\ UNCHANGED <<pages, call, pr, all_threads, idx, resolved, failed, calls,
                   out, raised, reply_body, fin, fout>>

InLoop == pc = "loop" /\ idx <= Len(filtered)

\* resolve_threads: if thread["resolved"]: continue
ResolveThreadsSkip ==
    /\ InLoop
    /\ filtered[idx].resolved
    /\ idx' = idx + 1
    /\ UNCHANGED <<pages, call, pc, pr, all_threads, filtered, resolved, failed,
                   calls, err, out, rc, raised, reply_body, fin, fout>>

\* a loop that replies to the first thread of the list instead of the
\* current one
ResolveThreadsReply_FirstThread ==
    /\ InLoop
    /\ ~filtered[idx].resolved
    /\ Truthy(reply_body)
    /\ TruthyInt(filtered[1].comment_id)
    /\ \E ok \in BOOLEAN :
         /\ calls' = Append(calls, GhCall("reply", filtered[1].thread_id,
                              filtered[1].comment_id, reply_body, ok))
         /\ err' = IF ok THEN err
                   ELSE Append(err, "Error: Failed to reply to comment")
    /\ pc' = "loop_resolve"
    /\ UNCHANGED <<pages, call, pr, all_threads, filtered, idx, resolved, failed,
                   out, rc, raised, reply_body, fin, fout>>

\* resolve_threads: if reply_body and thread["comment_id"]: reply_to_thread
ResolveThreadsReply ==
    /\ InLoop
    /\ ~filtered[idx].resolved
    /\ Truthy(reply_body)
    /\ TruthyInt(filtered[idx].comment_id)
    /\ \E ok \in BOOLEAN :
         /\ calls' = Append(calls, GhCall("reply", filtered[idx].thread_id,
                              filtered[idx].comment_id, reply_body, ok))
         /\ err' = IF ok THEN err
                   ELSE Append(err, "Error: Failed to reply to comment")
    /\ pc' = "loop_resolve"
    /\ UNCHANGED <<pages, call, pr, all_threads, filtered, idx, resolved, failed,
                   out, rc, raised, reply_body, fin, fout>>

\* a loop that counts a failed resolve as resolved
ResolveThreadsResolve_FailureCountsResolved ==
    /\ \/ pc = "loop_resolve"
       \/ /\ InLoop
          /\ ~filtered[idx].resolved
          /\ ~(Truthy(reply_body) /\ TruthyInt(filtered[idx].comment_id))
    /\ \E ok \in BOOLEAN :
         /\ calls' = Append(calls, GhCall("resolve", filtered[idx].thread_id,
                                          NoneInt, None, ok))
         /\ err' = IF ok THEN err
                   ELSE Append(err, "Error: Failed to resolve thread")
         /\ resolved' = resolved + 1
         /\ UNCHANGED failed
    /\ idx' = idx + 1
    /\ pc' = "loop"
    /\ UNCHANGED <<pages, call, pr, all_threads, filtered, out, rc, raised,
                   reply_body, fin, fout>>

\* resolve_threads: if resolve_thread(...): resolved += 1 else: failed += 1
ResolveThreadsResolve ==
    /\ \/ pc = "loop_resolve"
       \/ /\ InLoop
          /\ ~filtered[idx].resolved
          /\ ~(Truthy(reply_body) /\ TruthyInt(filtered[idx].comment_id))
    /\ \E ok \in BOOLEAN :
         /\ calls' = Append(calls, GhCall("resolve", filtered[idx].thread_id,
                                          NoneInt, None, ok))
         /\ err' = IF ok THEN err
                   ELSE Append(err, "Error: Failed to resolve thread")
         /\ resolved' = IF ok THEN resolved + 1 ELSE resolved
         /\ failed' = IF ok THEN failed ELSE failed + 1
    /\ idx' = idx + 1
    /\ pc' = "loop"
    /\ UNCHANGED <<pages, call, pr, all_threads, filtered, out, rc, raised,
                   reply_body, fin, fout>>

\* resolve_threads returns (resolved, failed); run_comments prints the
\* counts and returns 0 if failed == 0 else 1
ResolveThreadsReturn ==
    /\ pc = "loop"
    /\ idx > Len(filtered)
    /\ IF call.fn = "run_comments"
       THEN /\ err' = Append(err, "Resolved thread(s), failed")
            /\ Return(IF failed = 0 THEN 0 ELSE 1)
       ELSE /\ pc' = "done"
            /\ UNCHANGED <<err, rc>>
    /\ UNCHANGED <<pages, call, pr, all_threads, filtered, idx, resolved, failed,
                   calls, out, raised, reply_body, fin, fout>>

\* default: list threads
ListThreads ==
    /\ pc = "act"
    /\ ~call.reply.given
    /\ ~call.resolve.given
    /\ ~call.resolve_all
    /\ LET f == filter_threads(all_threads, BotList(call.bot), ~call.show_all) IN
       /\ filtered' = f
       /\ out' = IF call.output_json THEN format_json(f) ELSE format_compact(f)
    /\ Return(0)
    /\ UNCHANGED <<pages, call, pr, all_threads, idx, resolved, failed, calls,
                   err, raised, reply_body, fin, fout>>

Next ==
    \/ UnexpectedKeyword
    \/ GetPrNumber
    \/ GetRepoInfo
    \/ FetchThreads
    \/ HandleReply
    \/ ResolveNotFound
    \/ ResolveReply
    \/ ResolveMutation
    \/ ResolveAll
    \/ ResolveThreadsSkip
    \/ ResolveThreadsReply
    \/ ResolveThreadsResolve
    \/ ResolveThreadsReturn
    \/ ListThreads

Spec == Init /\ [][Next]_vars

-----------------------------------------------------------------------------
(* validate_resolve_message: comments.py under src/ does not define it;    *)
(* it is modelled from its tests (tests/test_resolve_validation.py)        *)

StrFixedInPrefix == <<"F", "i", "x", "e", "d", " ", "i", "n">>
StrFalsePositivePrefix ==
    <<"F", "a", "l", "s", "e", " ", "p", "o", "s", "i", "t", "i", "v", "e", ":">>
StrWontFixPrefix == <<"W", "o", "n", "'", "t", " ", "f", "i", "x", ":">>

VALID_RESOLVE_CATEGORIES ==
    <<StrFixedInPrefix, StrFalsePositivePrefix, StrWontFixPrefix>>

\* the curly apostrophe (U+2019, written "RSQUO") counts as a straight one
StraightApostrophes(s) ==
    [i \in 1..Len(s) |-> IF s[i] = "RSQUO" THEN "'" ELSE s[i]]

\* a validator that forgets to require the remainder
validate_resolve_message_NoRemainder(msg) ==
    /\ msg # None
    /\ \E i \in 1..Len(VALID_RESOLVE_CATEGORIES) :
         StartsWith(Lower(StraightApostrophes(Strip(msg))),
                    Lower(VALID_RESOLVE_CATEGORIES[i]))

validate_resolve_message(msg) ==
    IF msg = None THEN FALSE
    ELSE LET m == Lower(StraightApostrophes(Strip(msg))) IN
         \E i \in 1..Len(VALID_RESOLVE_CATEGORIES) :
            LET prefix == Lower(VALID_RESOLVE_CATEGORIES[i]) IN
            /\ StartsWith(m, prefix)
            /\ Strip(SubSeq(m, Len(prefix) + 1, Len(m))) # <<>>

-----------------------------------------------------------------------------
(* Specifications that apply one pure function to a drawn input            *)

\* the workflow variables, at rest
WorkflowIdle ==
    /\ pages = << <<>> >>
    /\ call = [fn |-> "none"]
    /\ pr = NoneInt
    /\ all_threads = <<>>
    /\ filtered = <<>>
    /\ idx = 1
    /\ resolved = 0
    /\ failed = 0
    /\ calls = <<>>
    /\ err = <<>>
    /\ out = <<>>
    /\ rc = RcNone
    /\ raised = ""
    /\ reply_body = None

WorkflowVars == <<pages, call, pr, all_threads, filtered, idx, resolved, failed,
                  calls, err, out, rc, raised, reply_body>>

MessageHeads ==
    { <<>>,
      StrFixedInPrefix, StrFalsePositivePrefix, StrWontFixPrefix,
      <<"f", "i", "x", "e", "d", " ", "i", "n">>,
      <<"W", "O", "N", "'", "T", " ", "F", "I", "X", ":">>,
      <<"W", "o", "n", "RSQUO", "t", " ", "f", "i", "x", ":">>,
      <<"F", "i", "x", "e", "d">>,
      <<"N", "o", "t", "e", "d">>,
      StrAcknowledged }
MessageTails == { <<>>, <<" ">>, <<"x">>, <<" ", "a", "b", "c", "1", "2", "3", "4">> }
MessagePads == { <<>>, <<" ">>, <<"\t", " ">> }

Messages ==
    {None} \cup
    { lead \o head \o rest \o trail :
        lead \in MessagePads, head \in MessageHeads,
        rest \in MessageTails, trail \in MessagePads }

ValidateInit ==
    /\ WorkflowIdle
    /\ pc = "validate"
    /\ fin \in Messages
    /\ fout = <<>>

ValidateApply ==
    /\ pc = "validate"
    /\ fout' = <<validate_resolve_message(fin)>>
    /\ pc' = "done"
    /\ UNCHANGED <<fin, WorkflowVars>>

SpecValidate == ValidateInit /\ [][ValidateApply]_vars

LowerPrefixes ==
    { <<"f", "i", "x", "e", "d", " ", "i", "n">>,
      <<"f", "a", "l", "s", "e", " ", "p", "o", "s", "i", "t", "i", "v", "e", ":">>,
      <<"w", "o", "n", "'", "t", " ", "f", "i", "x", ":">>,
      <<"w", "o", "n", "RSQUO", "t", " ", "f", "i", "x", ":">> }

HasCategoryAndRemainder(msg) ==
    /\ msg # None
    /\ \E p \in LowerPrefixes :
         LET m == Lower(Strip(msg)) IN
         /\ Len(m) > Len(p)
         /\ \A i \in 1..Len(p) : m[i] = p[i]

\* C2: validate_resolve_message(msg) is TRUE exactly when msg is a string
\* that, stripped and lower-cased, starts with "fixed in", "false positive:"
\* or "won't fix:" (straight or curly apostrophe) and is longer than that
\* prefix; None, "", blanks, a bare prefix and any other text give FALSE.
C2_ValidateExactlyCategories ==
    (pc = "done" /\ call.fn = "none" /\ Len(fout) = 1)
        => (fout[1] <=> HasCategoryAndRemainder(fin))

C2_Witness ==
    /\ pc = "done"
    /\ fin = <<" ">> \o <<"W", "o", "n", "RSQUO", "t", " ", "f", "i", "x", ":">>
             \o <<"x">>
    /\ fout = <<TRUE>>

-----------------------------------------------------------------------------
(* Claims about the reply / resolve workflow (specification Spec)          *)

Cmds == [i \in 1..Len(calls) |-> calls[i].cmd]

RepliesTo(tid) ==
    {i \in 1..Len(calls) : calls[i].cmd = "reply" /\ calls[i].thread_id = tid}

ResolvesOf(tid) ==
    {i \in 1..Len(calls) : calls[i].cmd = "resolve" /\ calls[i].thread_id = tid}

NoReplyOrResolve == \A i \in 1..Len(calls) : calls[i].cmd \notin {"reply", "resolve"}

AllCallsOk == \A i \in 1..Len(calls) : calls[i].ok

\* run_comments(resolve=(thread_id, body)) got as far as its resolve branch
SingleResolve ==
    /\ call.fn = "run_comments"
    /\ ~call.reply.given
    /\ call.resolve.given

\* run_comments(resolve_all=True, ...) without reply or resolve
BatchResolve ==
    /\ call.fn = "run_comments"
    /\ ~call.reply.given
    /\ ~call.resolve.given
    /\ call.resolve_all

\* C1: a single-thread resolve is carried out only with a valid category
\* message: with a body that is None or not valid, run_comments returns 1 and
\* issues neither a reply nor a resolve call; with a valid body on an existing
\* thread (and calls that succeed) it returns 0.
C1_ResolveRequiresCategory ==
    (SingleResolve /\ raised = "") =>
        IF validate_resolve_message(call.resolve.body)
        THEN (/\ pc = "done"
              /\ AllCallsOk
              /\ FindThread(all_threads, call.resolve.thread_id) # NoThread)
             => rc = 0
        ELSE /\ NoReplyOrResolve
             /\ pc = "done" => rc = 1

\* C3: resolve-all with a body that is not a valid category message returns 1
\* without replying or resolving; a valid body is posted as a reply to each
\* thread before it is resolved; without a body the threads are resolved
\* without replies.
C3_BatchBodyValidated ==
    (BatchResolve /\ pc = "done") =>
        LET body == call.resolve_all_body IN
        IF body = Absent
        THEN /\ raised = ""
             /\ \A i \in 1..Len(calls) : calls[i].cmd # "reply"
        ELSE IF body = None
        THEN TRUE
        ELSE IF ~validate_resolve_message(body)
        THEN /\ rc = 1
             /\ NoReplyOrResolve
        ELSE /\ raised = ""
             /\ \A i \in 1..Len(filtered) :
                  TruthyInt(filtered[i].comment_id) =>
                    \E r \in RepliesTo(filtered[i].thread_id) :
                       /\ calls[r].body = body
                       /\ \A m \in ResolvesOf(filtered[i].thread_id) : r < m
             /\ (AllCallsOk /\ Len(calls) >= 2) =>
                  \A i \in 1..Len(all_threads) :
                    (~all_threads[i].resolved /\ call.bot = None)
                        => ResolvesOf(all_threads[i].thread_id) # {}

\* C4: in a single-thread resolve with a body, a failed reply makes
\* run_comments return 1 and the resolve mutation is never issued.
C4_FailedReplyBlocksResolve ==
    SingleResolve =>
        \A i \in 1..Len(calls) :
            (calls[i].cmd = "reply" /\ ~calls[i].ok) =>
                /\ ResolvesOf(calls[i].thread_id) = {}
                /\ pc = "done" => rc = 1

\* C5: during resolve-all with a reply body, a thread whose reply fails is
\* counted as failed and not resolved, the remaining threads are still
\* processed, and the exit code is 1.
C5_FailedReplyCounted ==
    (call.fn = "resolve_threads" \/ BatchResolve) =>
        /\ \A i \in 1..Len(calls) :
             (calls[i].cmd = "reply" /\ ~calls[i].ok) =>
                ResolvesOf(calls[i].thread_id) = {}
        /\ pc = "done" =>
             /\ failed >= Cardinality({i \in 1..Len(calls) :
                                calls[i].cmd = "reply" /\ ~calls[i].ok})
             /\ (call.fn = "run_comments" /\ failed > 0) => rc = 1

\* reply before resolve, each at most once per thread, and a thread's resolve
\* directly after its reply
ReplyThenResolve ==
    /\ \A i \in 1..Len(calls) :
         calls[i].cmd \in {"reply", "resolve"} =>
            /\ Cardinality(RepliesTo(calls[i].thread_id)) <= 1
            /\ Cardinality(ResolvesOf(calls[i].thread_id)) <= 1
            /\ \A r \in RepliesTo(calls[i].thread_id) :
                 \A m \in ResolvesOf(calls[i].thread_id) : r < m
    /\ (call.fn = "resolve_threads" \/ BatchResolve \/ SingleResolve) =>
         \A i \in 1..(Len(calls) - 1) :
            calls[i].cmd = "reply" =>
               /\ calls[i + 1].cmd = "resolve"
               /\ calls[i + 1].thread_id = calls[i].thread_id

FourCalls == <<"repo view", "graphql threads", "reply", "resolve">>

\* a single resolve that replied and returned 0
RepliedAndResolved ==
    /\ SingleResolve
    /\ pc = "done"
    /\ rc = 0
    /\ "reply" \in Range(Cmds)

\* C6 as stated: the reply to a thread is issued before its resolve, each at
\* most once per thread, a thread's pair completes before the next thread's
\* calls, and a successful single resolve with a body makes exactly the four
\* calls repo info, fetch threads, reply, resolve.
C6_Original_ExactlyFourCalls ==
    /\ ReplyThenResolve
    /\ RepliedAndResolved => Cmds = FourCalls

\* C6 (amended): as stated, except that the four calls repo info, fetch
\* threads, reply, resolve are all the calls only when the PR number is passed
\* in; when it is detected from the branch, the one `gh pr view` call comes
\* first and the four follow.
C6_ReplyBeforeResolve ==
    /\ ReplyThenResolve
    /\ RepliedAndResolved =>
         Cmds = IF call.pr # NoneInt THEN FourCalls
                ELSE <<"pr view">> \o FourCalls

\* a single resolve with a body, the PR number detected from the branch,
\* replied to the thread, resolved it and returned 0
C6_Witness ==
    /\ RepliedAndResolved
    /\ call.pr = NoneInt
    /\ AllCallsOk
    /\ Len(calls) = 5
    /\ calls[4].thread_id = call.resolve.thread_id
    /\ calls[5].thread_id = call.resolve.thread_id

\* C7: fetch_threads follows the cursor: it requests one page after another
\* while hasNextPage is true and returns the parsed threads of every page in
\* page order.
C7_FetchAllPages ==
    (call.fn = "run_comments" /\ pc = "act" /\ err = <<>>
        /\ AttributeError \notin Range(ParseAll(Flatten(pages)))) =>
        /\ all_threads = SelectSeq(ParseAll(Flatten(pages)), IsThread)
        /\ Cardinality({i \in 1..Len(calls) : calls[i].cmd = "graphql threads"})
             = Len(pages)

-----------------------------------------------------------------------------
(* coderabbit_parser.py: tasks, dedup key, merge, summary                  *)

Severities == {"major", "minor", "suggestion"}
TaskSources == {"thread", "nitpick", "outside_diff"}

\* Task(id, file, line, title, severity, source, start_line); line_range,
\* ai_prompt and description are carried along unread
Task(file, line, start_line, title, severity, source) ==
    [id |-> "", file |-> file, line |-> line, title |-> title,
     severity |-> severity, source |-> source, start_line |-> start_line]

\* the number of title characters that enter the dedup key
TitleKeyLength == 50

\* task.start_line or task.line
LineStart(task) ==
    IF TruthyInt(task.start_line) THEN task.start_line ELSE task.line

dedup_key(task) ==
    <<task.file, LineStart(task),
      Prefix(Strip(Lower(task.title)), TitleKeyLength)>>

\* Python's order of the file names drawn
FileRank(file) ==
    CASE file = "a.py" -> 1 [] file = "b.py" -> 2 [] OTHER -> 3

\* key=lambda t: (t.file, t.start_line or t.line, t.line), compared as tuples
SortKeyLess(a, b) ==
    \/ FileRank(a.file) < FileRank(b.file)
    \/ /\ a.file = b.file
       /\ \/ LineStart(a) < LineStart(b)
          \/ LineStart(a) = LineStart(b) /\ a.line < b.line

\* list.sort is stable: an element goes after every element not greater
RECURSIVE InsertSorted(_, _)
InsertSorted(sorted, t) ==
    IF sorted = <<>> THEN <<t>>
    ELSE IF SortKeyLess(t, Head(sorted)) THEN <<t>> \o sorted
    ELSE <<Head(sorted)>> \o InsertSorted(Tail(sorted), t)

RECURSIVE SortTasks(_)
SortTasks(tasks) ==
    IF tasks = <<>> THEN <<>>
    ELSE InsertSorted(SortTasks(SubSeq(tasks, 1, Len(tasks) - 1)),
                      tasks[Len(tasks)])

\* seen[key] = task: a new key is appended, a known key keeps its place and
\* takes the new task
RECURSIVE SeenSet(_, _)
SeenSet(seen, task) ==
    IF seen = <<>> THEN <<task>>
    ELSE IF dedup_key(Head(seen)) = dedup_key(task)
         THEN <<task>> \o Tail(seen)
    ELSE <<Head(seen)>> \o SeenSet(Tail(seen), task)

SeenHas(seen, task) ==
    \E i \in 1..Len(seen) : dedup_key(seen[i]) = dedup_key(task)

RECURSIVE AddThreadTasks(_, _)
AddThreadTasks(seen, tasks) ==
    IF tasks = <<>> THEN seen
    ELSE AddThreadTasks(SeenSet(seen, Head(tasks)), Tail(tasks))

RECURSIVE AddBodyTasks(_, _)
AddBodyTasks(seen, tasks) ==
    IF tasks = <<>> THEN seen
    ELSE AddBodyTasks(IF SeenHas(seen, Head(tasks)) THEN seen
                      ELSE Append(seen, Head(tasks)),
                      Tail(tasks))

\* a merge that stores body tasks without looking the key up
merge_tasks_BodyOverwrites(thread_tasks, body_tasks) ==
    SortTasks(AddThreadTasks(AddThreadTasks(<<>>, thread_tasks), body_tasks))

\* a merge that sorts the tasks of both lists and drops none
merge_tasks_KeepsDuplicates(thread_tasks, body_tasks) ==
    SortTasks(thread_tasks \o body_tasks)

merge_tasks(thread_tasks, body_tasks) ==
    SortTasks(AddBodyTasks(AddThreadTasks(<<>>, thread_tasks), body_tasks))

CountWhere(tasks, P(_)) == Cardinality({i \in 1..Len(tasks) : P(tasks[i])})

\* Task.to_dict: start_line is emitted only when it is not None
to_dict(t) ==
    LET base == [id |-> t.id, file |-> t.file, line |-> t.line,
                 title |-> t.title, severity |-> t.severity,
                 source |-> t.source]
    IN IF t.start_line # NoneInt
       THEN base @@ [start_line |-> t.start_line]
       ELSE base

\* a summary whose "minor" line repeats the test of the "major" line
summary_of_MinorCountsMajor(tasks) ==
    [total |-> Len(tasks),
     by_severity |->
       [major |-> CountWhere(tasks, LAMBDA t : t.severity = "major"),
        minor |-> CountWhere(tasks, LAMBDA t : t.severity = "major"),
        suggestion |-> CountWhere(tasks, LAMBDA t : t.severity = "suggestion")],
     by_source |->
       [thread |-> CountWhere(tasks, LAMBDA t : t.source = "thread"),
        nitpick |-> CountWhere(tasks, LAMBDA t : t.source = "nitpick"),
        outside_diff |-> CountWhere(tasks, LAMBDA t : t.source = "outside_diff")],
     by_file |-> [f \in {tasks[i].file : i \in 1..Len(tasks)} |->
                    CountWhere(tasks, LAMBDA t : t.file = f)]]

summary_of(tasks) ==
    [total |-> Len(tasks),
     by_severity |->
       [major |-> CountWhere(tasks, LAMBDA t : t.severity = "major"),
        minor |-> CountWhere(tasks, LAMBDA t : t.severity = "minor"),
        suggestion |-> CountWhere(tasks, LAMBDA t : t.severity = "suggestion")],
     by_source |->
       [thread |-> CountWhere(tasks, LAMBDA t : t.source = "thread"),
        nitpick |-> CountWhere(tasks, LAMBDA t : t.source = "nitpick"),
        outside_diff |-> CountWhere(tasks, LAMBDA t : t.source = "outside_diff")],
     by_file |-> [f \in {tasks[i].file : i \in 1..Len(tasks)} |->
                    CountWhere(tasks, LAMBDA t : t.file = f)]]

generate_output(tasks) ==
    [tasks |-> [i \in 1..Len(tasks) |-> to_dict(tasks[i])],
     summary |-> summary_of(tasks)]

-----------------------------------------------------------------------------
(* Specification SpecTasks: merge_tasks and generate_output on drawn lists *)

MaxTasks == 2

StrFixBug == <<"F", "i", "x", " ", "b", "u", "g">>
StrFixBugLowerPadded == <<"f", "i", "x", " ", "b", "u", "g", " ">>
StrFixBugUpperPadded == <<" ", "F", "I", "X", " ", "B", "U", "G">>
StrOther == <<"O", "t", "h", "e", "r">>
\* two titles of TitleKeyLength + 1 characters that differ in the last one
StrLongA == [i \in 1..(TitleKeyLength + 1) |->
                IF i <= TitleKeyLength THEN "x" ELSE "a"]
StrLongB == [i \in 1..(TitleKeyLength + 1) |->
                IF i <= TitleKeyLength THEN "x" ELSE "b"]

ThreadTaskPool ==
    { Task("a.py", 10, NoneInt, StrFixBug, "major", "thread"),
      Task("a.py", 12, 10, StrFixBugLowerPadded, "minor", "thread"),
      Task("b.py", 5, 0, StrLongA, "suggestion", "thread"),
      Task("b.py", 7, NoneInt, StrOther, "minor", "thread") }

BodyTaskPool ==
    { Task("a.py", 10, NoneInt, StrFixBugUpperPadded, "suggestion", "nitpick"),
      Task("a.py", 12, 10, StrFixBug, "minor", "outside_diff"),
      Task("b.py", 5, NoneInt, StrLongB, "suggestion", "nitpick"),
      Task("a.py", 10, NoneInt, StrOther, "minor", "outside_diff"),
      Task("b.py", 9, 7, StrOther, "suggestion", "nitpick") }

ListsOf(pool) == UNION { [1..n -> pool] : n \in 0..MaxTasks }

TasksInit ==
    /\ WorkflowIdle
    /\ pc = "tasks"
    /\ fin \in { [thread_tasks |-> tt, body_tasks |-> bt] :
                   tt \in ListsOf(ThreadTaskPool), bt \in ListsOf(BodyTaskPool) }
    /\ fout = <<>>

\* all_tasks = merge_tasks(thread_tasks, body_tasks)
MergeApply ==
    /\ pc = "tasks"
    /\ fout' = [merged |-> merge_tasks(fin.thread_tasks, fin.body_tasks)]
    /\ pc' = "merged"
    /\ UNCHANGED <<fin, WorkflowVars>>

\* generate_output(tasks) on the drawn tasks as one list
GenerateApply ==
    /\ pc = "tasks"
    /\ fout' = [output |-> generate_output(fin.thread_tasks \o fin.body_tasks)]
    /\ pc' = "generated"
    /\ UNCHANGED <<fin, WorkflowVars>>

TasksNext == MergeApply \/ GenerateApply

SpecTasks == TasksInit /\ [][TasksNext]_vars

KeysOf(tasks) == {dedup_key(tasks[i]) : i \in 1..Len(tasks)}

\* C8: thread tasks have priority in merge_tasks: every dedup key that occurs
\* among the thread tasks is represented in the output by a thread task and by
\* no body task, and a body task is in the output only if no thread task has
\* its key.
C8_ThreadTasksTakePriority ==
    pc = "merged" =>
        LET merged == fout.merged IN
        /\ \A k \in KeysOf(fin.thread_tasks) :
             /\ \E i \in 1..Len(merged) :
                  /\ dedup_key(merged[i]) = k
                  /\ merged[i] \in Range(fin.thread_tasks)
             /\ \A i \in 1..Len(merged) :
                  dedup_key(merged[i]) = k => merged[i] \notin Range(fin.body_tasks)
        /\ \A i \in 1..Len(merged) :
             merged[i] \in Range(fin.body_tasks) =>
                dedup_key(merged[i]) \notin KeysOf(fin.thread_tasks)

\* a thread task and a body task with the same key (the titles differ in case
\* and padding, the thread task has a start_line) were merged
C8_Witness ==
    /\ pc = "merged"
    /\ fin.thread_tasks = <<Task("a.py", 12, 10, StrFixBugLowerPadded, "minor", "thread")>>
    /\ fin.body_tasks = <<Task("a.py", 10, NoneInt, StrFixBugUpperPadded, "suggestion", "nitpick"),
                          Task("a.py", 10, NoneInt, StrOther, "minor", "outside_diff")>>
    /\ Len(fout.merged) = 2

\* the first task of the list with the key
FirstWithKey(tasks, key) ==
    tasks[CHOOSE i \in 1..Len(tasks) :
            /\ dedup_key(tasks[i]) = key
            /\ \A j \in 1..(i - 1) : dedup_key(tasks[j]) # key]

\* C27: merge_tasks returns a list without duplicates: no two of its tasks
\* have the same dedup key, it has as many tasks as there are distinct
\* keys among thread_tasks and body_tasks, each of its tasks is a task of
\* the input, and a key that only body tasks have is represented by the
\* first body task with that key.
C27_MergeDeduplicates ==
    pc = "merged" =>
        LET merged == fout.merged IN
        /\ \A i \in 1..Len(merged) : \A j \in 1..(i - 1) :
              dedup_key(merged[i]) # dedup_key(merged[j])
        /\ Len(merged)
              = Cardinality(KeysOf(fin.thread_tasks) \cup KeysOf(fin.body_tasks))
        /\ \A i \in 1..Len(merged) :
              merged[i] \in Range(fin.thread_tasks) \cup Range(fin.body_tasks)
        /\ \A k \in KeysOf(fin.body_tasks) \ KeysOf(fin.thread_tasks) :
              FirstWithKey(fin.body_tasks, k) \in Range(merged)

\* two different body tasks with the same key, which no thread task has
C27_Witness ==
    /\ pc = "merged"
    /\ Len(fin.body_tasks) = 2
    /\ fin.body_tasks[1] # fin.body_tasks[2]
    /\ dedup_key(fin.body_tasks[1]) = dedup_key(fin.body_tasks[2])
    /\ dedup_key(fin.body_tasks[1]) \notin KeysOf(fin.thread_tasks)
    /\ fin.thread_tasks # <<>>
    /\ fin.body_tasks[1] \in Range(fout.merged)
    /\ fin.body_tasks[2] \notin Range(fout.merged)

RECURSIVE SumOver(_, _)
SumOver(f, keys) ==
    IF keys = {} THEN 0
    ELSE LET k == CHOOSE x \in keys : TRUE
         IN f[k] + SumOver(f, keys \ {k})

\* C9: generate_output's summary agrees with its task list: total is the
\* number of tasks, the by_severity counts, the by_source counts and the
\* by_file counts each sum to total, and by_file[f] is the number of tasks
\* with file f.
C9_SummaryConsistent ==
    pc = "generated" =>
        LET output == fout.output
            sm == output.summary
            n == Len(output.tasks)
        IN /\ n = Len(fin.thread_tasks) + Len(fin.body_tasks)
           /\ sm.total = n
           /\ sm.by_severity.major + sm.by_severity.minor
                + sm.by_severity.suggestion = n
           /\ sm.by_source.thread + sm.by_source.nitpick
                + sm.by_source.outside_diff = n
           /\ SumOver(sm.by_file, DOMAIN sm.by_file) = n
           /\ \A f \in DOMAIN sm.by_file :
                sm.by_file[f] = Cardinality({i \in 1..n : output.tasks[i].file = f})
           /\ \A i \in 1..n : output.tasks[i].file \in DOMAIN sm.by_file

C9_Witness ==
    /\ pc = "generated"
    /\ fout.output.summary.total = 2 * MaxTasks
    /\ Cardinality(DOMAIN fout.output.summary.by_file) = 2
    /\ fout.output.summary.by_severity.major > 0
    /\ fout.output.summary.by_source.outside_diff > 0

-----------------------------------------------------------------------------
(* Specification SpecFilter: filter_threads on drawn thread lists          *)

StrBotArgClaudeBot == <<"C", "l", "a", "u", "d", "e", "[", "b", "o", "t", "]">>
StrSomeBot == <<"s", "o", "m", "e", "-", "b", "o", "t">>

StrBotArgSomeBot == <<"S", "o", "m", "e", "-", "B", "o", "t">>
StrBotArgCommas == <<",", ",">>

\* a thread of a bot that has no alias
SomeBotShape ==
    [isResolved |-> FALSE, dbid |-> TRUE, empty |-> FALSE,
     author |-> [login |-> StrSomeBot \o StrBotSuffix]]

\* the thread lists fetch_threads can return for the nodes drawn
ThreadLists ==
    { SelectSeq(ParseAll(nodes), IsThread) :
        nodes \in NodeListsOf(NodeShapes \cup {SomeBotShape}) }

\* bots as a caller passes it, and as run_comments splits it from --bot
BotLists ==
    { NoBots, <<>>, <<StrBotArgCoderabbit>>, <<StrBotArgClaudeBot, <<>>, <<>> >>,
      <<StrCoderabbitai, StrClaude>>, <<StrSomeBot>>, <<StrBotArgSomeBot>>,
      BotList(StrBotArgClaude), BotList(StrBotArgCommas) }

FilterInit ==
    /\ WorkflowIdle
    /\ pc = "filter"
    /\ fin \in { [threads |-> ts, bots |-> bs, unresolved_only |-> u] :
                   ts \in ThreadLists, bs \in BotLists, u \in BOOLEAN }
    /\ fout = <<>>

FilterApply ==
    /\ pc = "filter"
    /\ fout' = [result |-> filter_threads(fin.threads, fin.bots,
                                          fin.unresolved_only)]
    /\ pc' = "filtered"
    /\ UNCHANGED <<fin, WorkflowVars>>

SpecFilter == FilterInit /\ [][FilterApply]_vars

\* s is t with some elements left out, the others unchanged and in order
RECURSIVE IsSubsequence(_, _)
IsSubsequence(s, t) ==
    IF s = <<>> THEN TRUE
    ELSE IF t = <<>> THEN FALSE
    ELSE IF Head(s) = Head(t) THEN IsSubsequence(Tail(s), Tail(t))
    ELSE IsSubsequence(s, Tail(t))

UnresolvedOf(threads) ==
    LET keep == {i \in 1..Len(threads) : threads[i].resolved = FALSE}
        RECURSIVE Pick(_)
        Pick(i) == IF i > Len(threads) THEN <<>>
                   ELSE IF i \in keep THEN <<threads[i]>> \o Pick(i + 1)
                   ELSE Pick(i + 1)
    IN Pick(1)

NoBotFilter == fin.bots = NoBots \/ fin.bots = <<>>

\* C10 as stated: with unresolved_only=True filter_threads returns exactly the
\* unresolved input threads in input order (whatever the bot filter); with
\* unresolved_only=False and no bot filter it returns every input thread; it
\* returns only input threads, unmodified.
C10_Original_UnresolvedExactly ==
    pc = "filtered" =>
        /\ fin.unresolved_only => fout.result = UnresolvedOf(fin.threads)
        /\ (~fin.unresolved_only /\ NoBotFilter) => fout.result = fin.threads
        /\ IsSubsequence(fout.result, fin.threads)

\* C10 (amended): with unresolved_only=True and no bot filter filter_threads
\* returns exactly the unresolved input threads in input order, and with a bot
\* filter a subsequence of them; with unresolved_only=False and no bot filter
\* it returns every input thread; it returns only input threads, unmodified.
C10_UnresolvedExactlyWithoutBots ==
    pc = "filtered" =>
        /\ (fin.unresolved_only /\ NoBotFilter)
              => fout.result = UnresolvedOf(fin.threads)
        /\ fin.unresolved_only
              => IsSubsequence(fout.result, UnresolvedOf(fin.threads))
        /\ (~fin.unresolved_only /\ NoBotFilter) => fout.result = fin.threads
        /\ IsSubsequence(fout.result, fin.threads)

\* a resolved thread between two unresolved ones was filtered out
C10_Witness ==
    /\ pc = "filtered"
    /\ fin.unresolved_only
    /\ fin.bots = NoBots
    /\ Len(fin.threads) = 2
    /\ fin.threads[1].resolved
    /\ ~fin.threads[2].resolved
    /\ fout.result = <<fin.threads[2]>>

\* the login a requested name stands for: lower-cased, without a trailing
\* "[bot]", a short alias replaced by its login
ExpectedLogin(name) ==
    LET n == RemoveSuffix(Lower(name), StrBotSuffix) IN
    CASE n = StrCoderabbit -> StrCoderabbitai
      [] n = StrDeepsource -> StrDeepsourceIo
      [] n = StrGemini -> StrGeminiCodeAssist
      [] OTHER -> n

\* the names of a bot list, its empty segments left out
RequestedNames(bots) == {b \in Range(bots) : b # <<>>}

\* C11: with a bot list filter_threads keeps exactly the threads (unresolved
\* ones when unresolved_only) whose bot is the login of a requested name:
\* case-insensitive, trailing "[bot]" ignored, alias mapped to its login, a
\* full login unchanged, an unknown name lower-cased; empty segments of the
\* --bot value do not change the result.
C11_BotFilterByResolvedLogin ==
    (pc = "filtered" /\ fin.bots # NoBots /\ fin.bots # <<>>) =>
        LET names == RequestedNames(fin.bots)
            base == IF fin.unresolved_only THEN UnresolvedOf(fin.threads)
                    ELSE fin.threads
            Wanted(t) == \E b \in names : t.bot = ExpectedLogin(b)
        IN fout.result = IF names = {} THEN base ELSE SelectSeq(base, Wanted)

\* the same, for bot lists that name at least one bot
C11_NamedBotsOnly ==
    (pc = "filtered" /\ RequestedNames(fin.bots) # {})
        => C11_BotFilterByResolvedLogin

-----------------------------------------------------------------------------
(* Specification SpecPreview: _truncate, parse_thread and format_json on   *)
(* drawn texts and nodes                                                   *)

MaxTextLen == 10
MaxLength == 6

StrAlphabet ==
    <<"a", "b", "c", "d", "e", "f", "g", "h", "i", "j", "k", "l", "m", "n">>

\* the texts "", "a", "ab", ... and the lengths 1, 2, ...
TruncateInputs ==
    { [text |-> Prefix(StrAlphabet, n), length |-> k] :
        n \in 0..MaxTextLen, k \in 1..MaxLength }

\* a comment body of n characters without tags or blanks
BodyOf(n) == [i \in 1..n |-> "x"]

PreviewAuthors ==
    { [login |-> StrCoderabbitaiBot], [login |-> StrClaude],
      AuthorNull, AuthorMissing }

PreviewBodies ==
    { StrBodyText, BodyOf(JSON_PREVIEW_LENGTH), BodyOf(JSON_PREVIEW_LENGTH + 1),
      BodyOf(JSON_PREVIEW_LENGTH + 50) }

\* a reviewThreads node: without comments, or with total comments of which
\* the first is by author and says body
PreviewNode(author, body, total, empty) ==
    [id |-> ThreadIdOf(1),
     isResolved |-> FALSE,
     comments |->
       [totalCount |-> IF empty THEN 0 ELSE total,
        nodes |-> IF empty THEN <<>>
                  ELSE << [databaseId |-> CommentIdOf(1),
                           author |-> author,
                           body |-> body,
                           path |-> "lib/foo.py",
                           line |-> 10,
                           startLine |-> NoneInt,
                           createdAt |-> "2026-02-15T10:00:00Z"] >>]]

PreviewNodes ==
    { PreviewNode(a, b, n, e) :
        a \in PreviewAuthors, b \in PreviewBodies, n \in {1, 3}, e \in BOOLEAN }

PreviewInit ==
    /\ WorkflowIdle
    /\ \/ pc = "truncate" /\ fin \in TruncateInputs
       \/ pc = "parse" /\ fin \in {[node |-> n] : n \in PreviewNodes}
    /\ fout = <<>>

TruncateApply ==
    /\ pc = "truncate"
    /\ fout' = [result |-> _truncate(fin.text, fin.length)]
    /\ pc' = "truncated"
    /\ UNCHANGED <<fin, WorkflowVars>>

ParseApply ==
    /\ pc = "parse"
    /\ fout' = [result |-> parse_thread(fin.node)]
    /\ pc' = "parsed"
    /\ UNCHANGED <<fin, WorkflowVars>>

\* format_json([parsed]) on the thread parse_thread returned
FormatJsonApply ==
    /\ pc = "parsed"
    /\ IsThread(fout.result)
    /\ fout' = [result |-> fout.result, json |-> format_json(<<fout.result>>)]
    /\ pc' = "formatted"
    /\ UNCHANGED <<fin, WorkflowVars>>

PreviewNext == TruncateApply \/ ParseApply \/ FormatJsonApply

SpecPreview == PreviewInit /\ [][PreviewNext]_vars

\* C12: _truncate(text, length) is never longer than length (length >= 1):
\* text of at most length characters comes back unchanged; longer text comes
\* back as its first length - 3 characters followed by "..." when length > 3,
\* and as its first length characters when length <= 3.
C12_TruncateWithinLength ==
    pc = "truncated" =>
        LET text == fin.text
            length == fin.length
            r == fout.result
        IN /\ Len(r) <= length
           /\ Len(text) <= length => r = text
           /\ (Len(text) > length /\ length > 3) =>
                /\ Len(r) = length
                /\ r = SubSeq(text, 1, length - 3) \o StrEllipsis
           /\ (Len(text) > length /\ length <= 3) => r = SubSeq(text, 1, length)

\* the same for the lengths above 3 only
C12_LongLengthsOnly ==
    (pc = "truncated" /\ fin.length > 3) => C12_TruncateWithinLength

\* the bot of a first comment: its author's login without a trailing "[bot]",
\* "unknown" for a deleted account or a missing author
ExpectedBot(author) ==
    IF author = AuthorNull \/ author = AuthorMissing THEN StrUnknown
    ELSE RemoveSuffix(author.login, StrBotSuffix)

\* C13: parse_thread never fails on a review-thread node: it returns None for
\* a node without comments, and otherwise a record whose bot is the first
\* comment's author login without a trailing "[bot]", or "unknown" when the
\* author is null or missing, and whose reply_count is totalCount - 1.
C13_ParseThreadNeverFails ==
    pc = "parsed" =>
        LET node == fin.node
            r == fout.result
        IN /\ r # AttributeError
           /\ node.comments.nodes = <<>> => r = NoThread
           /\ node.comments.nodes # <<>> =>
                /\ IsThread(r)
                /\ r.bot = ExpectedBot(node.comments.nodes[1].author)
                /\ r.reply_count = node.comments.totalCount - 1

\* the same for nodes whose first comment has an author or no author key
C13_AuthorNotNull ==
    (pc = "parsed" /\ fin.node.comments.nodes # <<>>
        /\ fin.node.comments.nodes[1].author = AuthorNull)
    \/ C13_ParseThreadNeverFails

\* C14: the body preview is truncated once, at parse time: parse_thread
\* returns a body_preview of at most JSON_PREVIEW_LENGTH characters, and
\* format_json emits each thread's body_preview as parse_thread produced it.
C14_PreviewTruncatedOnce ==
    /\ (pc \in {"parsed", "formatted"} /\ IsThread(fout.result)) =>
          Len(fout.result.body_preview) <= JSON_PREVIEW_LENGTH
    /\ pc = "formatted" =>
          fout.json.threads[1].body_preview = fout.result.body_preview

\* the same for bodies of at most JSON_PREVIEW_LENGTH characters
C14_ShortBodiesOnly ==
    (pc \in {"parsed", "formatted"} /\ fin.node.comments.nodes # <<>>
        /\ Len(fin.node.comments.nodes[1].body) > JSON_PREVIEW_LENGTH)
    \/ C14_PreviewTruncatedOnce

-----------------------------------------------------------------------------
(* Claims about run_comments' prerequisites, reply and listing             *)
(* (specification Spec)                                                    *)

ReplyRequest == call.fn = "run_comments" /\ call.reply.given

\* run_comments has fetched the threads and left its reply branch
ReplyHandled ==
    /\ ReplyRequest
    /\ pc = "done"
    /\ raised = ""
    /\ "graphql threads" \in Range(Cmds)

AllReplies == {i \in 1..Len(calls) : calls[i].cmd = "reply"}

\* the databaseId of the first comment of the node with id tid
FirstCommentIdOf(tid) ==
    LET nodes == Flatten(pages)
        k == CHOOSE i \in 1..Len(nodes) : nodes[i].id = tid
    IN nodes[k].comments.nodes[1].databaseId

\* C15: a reply request for a thread_id that no fetched thread has returns 1
\* with a 'not found' error and no reply call; for a thread that has a
\* comment id exactly one reply is posted, to its first comment, and the exit
\* code is 0 iff that call succeeded; a reply request never issues a resolve
\* mutation.
C15_ReplyRequest ==
    ReplyRequest =>
        /\ \A i \in 1..Len(calls) : calls[i].cmd # "resolve"
        /\ Cardinality(AllReplies) <= 1
        /\ ReplyHandled =>
             LET tid == call.reply.thread_id
                 known == \E i \in 1..Len(all_threads) :
                             all_threads[i].thread_id = tid
             IN IF ~known
                THEN /\ rc = 1
                     /\ "Error: Thread not found" \in Range(err)
                     /\ AllReplies = {}
                ELSE FirstCommentIdOf(tid) # NoneInt =>
                     /\ \E r \in AllReplies :
                          /\ calls[r].thread_id = tid
                          /\ calls[r].comment_id = FirstCommentIdOf(tid)
                          /\ calls[r].body = call.reply.body
                          /\ rc = 0 <=> calls[r].ok
                     /\ rc \in {0, 1}

\* a reply was posted and run_comments returned 0, although a resolve was
\* requested in the same call
C15_Witness ==
    /\ ReplyHandled
    /\ call.resolve.given
    /\ rc = 0
    /\ calls[Len(calls)].cmd = "reply"
    /\ calls[Len(calls)].ok

\* no PR number was passed and `gh pr view` gave none
PrNotDetected == call.pr = NoneInt /\ pr = NoneInt /\ calls # <<>>

\* `gh repo view` failed, or its output was not "owner repo"
RepoInfoFailed ==
    \/ \E i \in 1..Len(calls) : calls[i].cmd = "repo view" /\ ~calls[i].ok
    \/ "Error: Could not determine repository info" \in Range(err)

\* C16: run_comments checks its prerequisites in order and stops at the first
\* failure: without a PR number it returns 1 after `gh pr view` alone; without
\* repository info it returns 1 and does not fetch the threads; in both cases
\* there is no reply and no resolve call.
C16_PrerequisitesInOrder ==
    call.fn = "run_comments" =>
        /\ PrNotDetected =>
             /\ pc = "done" /\ rc = 1
             /\ Cmds = <<"pr view">>
        /\ RepoInfoFailed =>
             /\ pc = "done" /\ rc = 1
             /\ calls[Len(calls)].cmd = "repo view"
             /\ "graphql threads" \notin Range(Cmds)
             /\ NoReplyOrResolve
        /\ \A i \in 1..Len(calls) :
             /\ calls[i].cmd = "pr view" => (i = 1 /\ call.pr = NoneInt)
             /\ calls[i].cmd = "repo view" =>
                  i = (IF call.pr = NoneInt THEN 2 ELSE 1)
             /\ calls[i].cmd = "graphql threads" =>
                  (i > 1 /\ calls[i - 1].cmd = "repo view")

\* the PR number was detected, repository info was not, for a reply request
C16_Witness ==
    /\ call.fn = "run_comments"
    /\ call.reply.given
    /\ RepoInfoFailed
    /\ pc = "done"
    /\ rc = 1
    /\ Cmds = <<"pr view", "repo view">>

PlainListing ==
    /\ call.fn = "run_comments"
    /\ ~call.reply.given
    /\ ~call.resolve.given
    /\ ~call.resolve_all

FetchCalls == {i \in 1..Len(calls) : calls[i].cmd = "graphql threads"}

FetchWarnings ==
    {"Warning: Failed to fetch review threads via GraphQL",
     "Warning: Invalid JSON from GraphQL response"}

\* the GraphQL call exited non-zero, or its output was not JSON
FetchFailed ==
    \/ \E i \in FetchCalls : ~calls[i].ok
    \/ "Warning: Invalid JSON from GraphQL response" \in Range(err)

\* C17: a failed or unparseable thread fetch is handled best-effort:
\* fetch_threads warns and returns an empty list, the query is not repeated,
\* and a plain listing then prints a summary with 0 unresolved threads and
\* returns 0.
C17_FailedFetchBestEffort ==
    call.fn = "run_comments" =>
        /\ Cardinality(FetchCalls) <= 1
        /\ FetchFailed =>
             /\ Range(err) \cap FetchWarnings # {}
             /\ all_threads = <<>>
             /\ raised = ""
        /\ (FetchFailed /\ PlainListing) =>
             /\ pc \in {"act", "done"}
             /\ pc = "done" =>
                  /\ rc = 0
                  /\ out.summary.unresolved = 0
                  /\ out.threads = <<>>

\* the PR has a review thread, the fetch failed, and the listing returned 0
C17_Witness ==
    /\ PlainListing
    /\ \E i \in FetchCalls : ~calls[i].ok
    /\ Flatten(pages) # <<>>
    /\ pc = "done"
    /\ rc = 0

\* the stderr messages of run_comments that say the reply was skipped
ReplySkippedWarnings == {"Warning: Thread has no comment ID, reply skipped"}

\* a single resolve with a body reached the mutation for a thread whose first
\* comment has no databaseId
ResolvedWithoutCommentId ==
    /\ SingleResolve
    /\ Truthy(call.resolve.body)
    /\ \E i \in 1..Len(all_threads) :
         /\ all_threads[i].thread_id = call.resolve.thread_id
         /\ all_threads[i].comment_id = NoneInt
    /\ ResolvesOf(call.resolve.thread_id) # {}

\* C18: a single-thread resolve with a body on a thread whose first comment
\* has no database id warns that the reply is skipped, issues no reply call,
\* still issues the resolve mutation, and returns 0 when the mutation succeeds.
C18_ReplySkippedWarning ==
    ResolvedWithoutCommentId =>
        /\ Range(err) \cap ReplySkippedWarnings # {}
        /\ AllReplies = {}
        /\ (pc = "done" /\ calls[Len(calls)].ok) => rc = 0

\* the same without the warning
C18_ResolvedWithoutReply ==
    ResolvedWithoutCommentId =>
        /\ AllReplies = {}
        /\ (pc = "done" /\ calls[Len(calls)].ok) => rc = 0

\* resolve_threads is running or has run: called directly, or from the
\* resolve-all branch of run_comments
InResolveThreads ==
    \/ call.fn = "resolve_threads"
    \/ BatchResolve /\ filtered # <<>>

\* the positions of the unresolved threads among the first n of the list
UnresolvedAmong(threads, n) ==
    {i \in 1..(IF n < Len(threads) THEN n ELSE Len(threads)) :
        ~threads[i].resolved}

\* run_comments reached the resolve-all branch: nothing was raised, the PR
\* number and the repository info were found
ResolveAllReached ==
    /\ BatchResolve
    /\ pc = "done"
    /\ raised = ""
    /\ ~PrNotDetected
    /\ ~RepoInfoFailed

\* C29: resolve_threads accounts for every thread once: a thread that is
\* already resolved gets no call; every unresolved thread that the loop has
\* passed got one resolve call, counted in resolved when it succeeded and in
\* failed when it did not, so that at the end resolved + failed is the
\* number of unresolved threads of the list; run_comments with resolve_all
\* returns 0 exactly when failed is 0, and returns 0 without a reply or
\* resolve call when there is no unresolved thread to resolve.
C29_EveryThreadAccounted ==
    /\ InResolveThreads =>
         /\ \A i \in 1..Len(filtered) :
              LET tid == filtered[i].thread_id IN
              /\ filtered[i].resolved =>
                    RepliesTo(tid) = {} /\ ResolvesOf(tid) = {}
              /\ (~filtered[i].resolved /\ i < idx) =>
                    Cardinality(ResolvesOf(tid)) = 1
              /\ i > idx => ResolvesOf(tid) = {}
         /\ resolved + failed = Cardinality(UnresolvedAmong(filtered, idx - 1))
         /\ resolved = Cardinality({i \in 1..Len(calls) :
                            calls[i].cmd = "resolve" /\ calls[i].ok})
         /\ failed = Cardinality({i \in 1..Len(calls) :
                          calls[i].cmd = "resolve" /\ ~calls[i].ok})
         /\ pc = "done" =>
              resolved + failed
                = Cardinality(UnresolvedAmong(filtered, Len(filtered)))
    /\ ResolveAllReached =>
         /\ rc = 0 <=> failed = 0
         /\ UnresolvedAmong(filtered, Len(filtered)) = {} =>
              rc = 0 /\ NoReplyOrResolve

\* a resolve-all over two unresolved threads, one resolved and one failed
C29_Witness ==
    /\ ResolveAllReached
    /\ Len(filtered) = 2
    /\ resolved = 1
    /\ failed = 1
    /\ rc = 1

\* resolve_threads on a list with a resolved thread, which it skipped
C29_SkipWitness ==
    /\ call.fn = "resolve_threads"
    /\ pc = "done"
    /\ Len(filtered) = 2
    /\ filtered[1].resolved
    /\ ~filtered[2].resolved
    /\ resolved + failed = 1
    /\ \A i \in 1..Len(calls) : calls[i].thread_id = filtered[2].thread_id

\* the thread is one that resolve-all selects: unresolved, and of a
\* requested bot when bots are requested
Selected(t) ==
    /\ ~t.resolved
    /\ Truthy(call.bot) =>
          \E b \in RequestedNames(BotList(call.bot)) : t.bot = ExpectedLogin(b)

\* C30: in a resolve-all, every reply and every resolve call is for a
\* fetched thread that is unresolved and, with a bot filter, whose bot is
\* one of the bots asked for; threads of other bots and resolved threads
\* get neither; a plain listing makes no reply and no resolve call.
C30_OnlySelectedThreadsTouched ==
    /\ BatchResolve =>
         \A i \in 1..Len(calls) :
            calls[i].cmd \in {"reply", "resolve"} =>
               \E k \in 1..Len(all_threads) :
                  /\ all_threads[k].thread_id = calls[i].thread_id
                  /\ Selected(all_threads[k])
    /\ BatchResolve =>
         \A k \in 1..Len(all_threads) :
            ~Selected(all_threads[k]) =>
               /\ RepliesTo(all_threads[k].thread_id) = {}
               /\ ResolvesOf(all_threads[k].thread_id) = {}
    /\ PlainListing => NoReplyOrResolve

\* a resolve-all for one bot on a PR with an unresolved thread of that bot,
\* which was resolved, and an unresolved thread of another bot
C30_Witness ==
    /\ ResolveAllReached
    /\ Truthy(call.bot)
    /\ Len(all_threads) = 2
    /\ \A k \in 1..2 : ~all_threads[k].resolved
    /\ Selected(all_threads[1])
    /\ ~Selected(all_threads[2])
    /\ Cardinality(ResolvesOf(all_threads[1].thread_id)) = 1
    /\ rc = 0

-----------------------------------------------------------------------------
(* coderabbit_parser.py: line ranges and body items                        *)

Digits == <<"0", "1", "2", "3", "4", "5", "6", "7", "8", "9">>

IsDigit(c) == c \in Range(Digits)

DigitValue(c) == (CHOOSE i \in 1..Len(Digits) : Digits[i] = c) - 1

RECURSIVE DigitsValue(_)
DigitsValue(s) ==
    IF s = <<>> THEN 0
    ELSE DigitsValue(SubSeq(s, 1, Len(s) - 1)) * 10 + DigitValue(s[Len(s)])

ValueError == [kind |-> "ValueError"]

\* int(s): blanks around the number and a sign are accepted, anything else
\* than decimal digits raises ValueError
ParseInt(s) ==
    LET t == Strip(s)
        signed == t # <<>> /\ Head(t) \in {"+", "-"}
        digits == IF signed THEN Tail(t) ELSE t
    IN IF digits = <<>> \/ \E i \in 1..Len(digits) : ~IsDigit(digits[i])
       THEN ValueError
       ELSE [kind |-> "int",
             value |-> IF signed /\ Head(t) = "-" THEN 0 - DigitsValue(digits)
                       ELSE DigitsValue(digits)]

\* the smallest index i >= from with Test(s[i]), Len(s) + 1 when there is none
FirstIndex(s, from, Test(_)) ==
    LET hits == {i \in from..Len(s) : Test(s[i])}
    IN IF hits = {} THEN Len(s) + 1
       ELSE CHOOSE i \in hits : \A j \in hits : i <= j

\* str.strip of backticks (the backtick is written "BACKTICK")
RECURSIVE StripBackticks(_)
StripBackticks(s) ==
    IF s # <<>> /\ Head(s) = "BACKTICK" THEN StripBackticks(Tail(s))
    ELSE IF s # <<>> /\ s[Len(s)] = "BACKTICK"
    THEN StripBackticks(SubSeq(s, 1, Len(s) - 1))
    ELSE s

\* parse_line_range: (start, end), or ValueError raised by int()
parse_line_range(line_range) ==
    LET text == StripBackticks(Strip(line_range))
        IsDash(c) == c = "-"
        dash == FirstIndex(text, 1, IsDash)
    IN IF dash <= Len(text)
       THEN LET start == ParseInt(Strip(SubSeq(text, 1, dash - 1)))
                end == ParseInt(Strip(SubSeq(text, dash + 1, Len(text))))
            IN IF start = ValueError \/ end = ValueError THEN ValueError
               ELSE [kind |-> "range", start |-> start.value, end |-> end.value]
       ELSE LET line_num == ParseInt(text)
            IN IF line_num = ValueError THEN ValueError
               ELSE [kind |-> "range", start |-> line_num.value,
                     end |-> line_num.value]

NoMatch == [kind |-> "None"]
NoTask == [kind |-> "None"]

\* re.match of the item pattern: a backtick, the line range (no backtick
\* in it), a backtick, a colon, optional blanks, two stars, the title (no
\* star in it), two stars; the two groups, or no match
MatchBodyItem(text) ==
    LET IsTick(c) == c = "BACKTICK"
        IsStar(c) == c = "*"
        NotSpace(c) == c \notin Whitespace
        close == FirstIndex(text, 2, IsTick)
        bold == FirstIndex(text, close + 2, NotSpace)
        last == FirstIndex(text, bold + 2, IsStar)
    IN IF /\ text # <<>> /\ text[1] = "BACKTICK"
          /\ close <= Len(text) /\ close > 2
          /\ close + 1 <= Len(text) /\ text[close + 1] = ":"
          /\ bold + 1 <= Len(text) /\ text[bold] = "*" /\ text[bold + 1] = "*"
          /\ last + 1 <= Len(text) /\ last > bold + 2 /\ text[last + 1] = "*"
       THEN [kind |-> "match",
             range |-> SubSeq(text, 2, close - 1),
             title |-> SubSeq(text, bold + 2, last - 1)]
       ELSE NoMatch

\* an item parser that takes the first line of the range as the task's line
parse_body_item_LineIsStart(file, item_text, source, default_severity) ==
    LET match == MatchBodyItem(Strip(item_text)) IN
    IF match = NoMatch THEN NoTask
    ELSE LET range == parse_line_range(match.range) IN
         IF range = ValueError THEN NoTask
         ELSE [kind |-> "task",
               id |-> "",
               file |-> file,
               line |-> range.start,
               start_line |-> IF range.start # range.end THEN range.start
                              ELSE NoneInt,
               line_range |-> match.range,
               title |-> Strip(match.title),
               severity |-> default_severity,
               source |-> source]

\* parse_body_item: the Task of one item of a file block, or None; the
\* description (the text after the title) is not modelled
parse_body_item(file, item_text, source, default_severity) ==
    LET match == MatchBodyItem(Strip(item_text)) IN
    IF match = NoMatch THEN NoTask
    ELSE LET range == parse_line_range(match.range) IN
         IF range = ValueError THEN NoTask
         ELSE [kind |-> "task",
               id |-> "",
               file |-> file,
               line |-> range.end,
               start_line |-> IF range.start # range.end THEN range.start
                              ELSE NoneInt,
               line_range |-> match.range,
               title |-> Strip(match.title),
               severity |-> default_severity,
               source |-> source]

-----------------------------------------------------------------------------
(* coderabbit_parser.py: review threads                                    *)

StrMajor == <<"m", "a", "j", "o", "r">>
StrMinor == <<"m", "i", "n", "o", "r">>
StrUntitledIssue ==
    <<"U", "n", "t", "i", "t", "l", "e", "d", " ", "i", "s", "s", "u", "e">>

\* sub in s
Contains(s, sub) ==
    \E i \in 1..(Len(s) - Len(sub) + 1) : SubSeq(s, i, i + Len(sub) - 1) = sub

\* extract_severity: the first line decides ("ORANGE" and "YELLOW" are the
\* orange and the yellow circle emoji)
extract_severity(body) ==
    LET first_line == IF body # <<>> THEN Split(body, "\n")[1] ELSE <<>>
        first_line_lower == Lower(first_line)
    IN IF "ORANGE" \in Range(first_line) \/ Contains(first_line_lower, StrMajor)
       THEN "major"
       ELSE IF "YELLOW" \in Range(first_line)
               \/ Contains(first_line_lower, StrMinor)
       THEN "minor"
       ELSE "suggestion"

\* two stars at p, then characters other than a star (at least one), then
\* two stars: the index of the closing pair, 0 when there is no such text
BoldClose(s, p) ==
    LET IsStar(c) == c = "*"
        close == FirstIndex(s, p + 2, IsStar)
    IN IF /\ p + 1 <= Len(s) /\ s[p] = "*" /\ s[p + 1] = "*"
          /\ close > p + 2 /\ close + 1 <= Len(s) /\ s[close + 1] = "*"
       THEN close ELSE 0

\* after the closing pair only blanks follow up to the end of the line
BoldEndsLine(s, p) ==
    LET NotSpace(c) == c \notin Whitespace
        after == BoldClose(s, p) + 2
        stop == FirstIndex(s, after, NotSpace)
    IN \/ stop = Len(s) + 1
       \/ \E k \in after..(stop - 1) : s[k] = "\n"

\* extract_title: the first bold text that is a line of its own, else the
\* first bold text, else "Untitled issue"
extract_title(body) ==
    LET line_starts == {1} \cup {i + 1 : i \in {j \in 1..Len(body) : body[j] = "\n"}}
        own_line == {p \in line_starts : BoldClose(body, p) # 0
                                         /\ BoldEndsLine(body, p)}
        any_bold == {p \in 1..Len(body) : BoldClose(body, p) # 0}
        First(ps) == CHOOSE p \in ps : \A q \in ps : p <= q
        Group(p) == Strip(SubSeq(body, p + 2, BoldClose(body, p) - 1))
    IN IF own_line # {} THEN Group(First(own_line))
       ELSE IF any_bold # {} THEN Group(First(any_bold))
       ELSE StrUntitledIssue

\* a thread parser that takes line 0 for a missing line
parser_parse_thread_ZeroIsMissing(thread) ==
    IF thread.body = <<>> \/ thread.body = None THEN NoTask
    ELSE IF thread.path = "" THEN NoTask
    ELSE IF ~TruthyInt(thread.line) THEN NoTask
    ELSE Task(thread.path, thread.line, thread.startLine,
              extract_title(thread.body), extract_severity(thread.body),
              "thread")

\* coderabbit_parser.parse_thread: a Task, or None for a thread without
\* body, path or line; ai_prompt and description are not modelled
parser_parse_thread(thread) ==
    IF thread.body = <<>> \/ thread.body = None THEN NoTask
    ELSE IF thread.path = "" THEN NoTask
    ELSE IF thread.line = NoneInt THEN NoTask
    ELSE Task(thread.path, thread.line, thread.startLine,
              extract_title(thread.body), extract_severity(thread.body),
              "thread")

RECURSIVE ParseThreadsFrom(_)
ParseThreadsFrom(threads) ==
    IF threads = <<>> THEN <<>>
    ELSE LET task == parser_parse_thread(Head(threads))
         IN (IF task # NoTask THEN <<task>> ELSE <<>>)
            \o ParseThreadsFrom(Tail(threads))

parse_threads(data) == ParseThreadsFrom(data.threads)

-----------------------------------------------------------------------------
(* Specification SpecParser: the parsers of coderabbit_parser.py on drawn  *)
(* texts                                                                   *)

\* str(n) for n >= 0
RECURSIVE IntToStr(_)
IntToStr(n) ==
    IF n < 10 THEN <<Digits[n + 1]>>
    ELSE IntToStr(n \div 10) \o <<Digits[(n % 10) + 1]>>

LineNumbers == {0, 5, 42, 133}

\* "N", "A-B", and the same with blanks inside
RangeCore(a, b, single, spaced) ==
    IF single THEN IntToStr(a)
    ELSE IntToStr(a) \o (IF spaced THEN <<" ", "-", " ">> ELSE <<"-">>)
         \o IntToStr(b)

\* the line range as written: bare, in blanks, in backticks, or both
RangeText(core, form) ==
    CASE form = "bare" -> core
      [] form = "blanks" -> <<" ">> \o core \o <<"\t">>
      [] form = "ticks" -> <<"BACKTICK">> \o core \o <<"BACKTICK">>
      [] OTHER -> <<" ", "BACKTICK">> \o core \o <<"BACKTICK", "\n">>

RangeForms == {"bare", "blanks", "ticks", "blanks and ticks"}

NumericRanges ==
    { [text |-> RangeText(RangeCore(a, b, FALSE, sp), form), numeric |-> TRUE,
       start |-> a, end |-> b] :
        a \in LineNumbers, b \in LineNumbers, sp \in BOOLEAN, form \in RangeForms }
    \cup
    { [text |-> RangeText(RangeCore(a, a, TRUE, FALSE), form), numeric |-> TRUE,
       start |-> a, end |-> a] :
        a \in LineNumbers, form \in RangeForms }

\* line ranges that are not numbers ("NDASH" is the en dash)
BadRangeTexts ==
    { <<"a", "b", "c">>, <<"1", "0", "-">>, <<"-", "5">>,
      <<"1", "0", "-", "2", "0", "-", "3", "0">>, <<"1", "a">>,
      <<"4", ".", "5">>, <<"1", "0", "NDASH", "2", "0">>, <<" ">> }

RangeInputs ==
    NumericRanges \cup
    { [text |-> t, numeric |-> FALSE, start |-> NoneInt, end |-> NoneInt] :
        t \in BadRangeTexts }

StrFixTheBug == <<"F", "i", "x", " ", "t", "h", "e", " ", "b", "u", "g">>
StrPaddedTitle == <<" ", "P", "a", "d", "d", "e", "d", " ">>
StrDescription ==
    <<"\n", "\n", "D", "e", "s", "c", "r", "i", "p", "t", "i", "o", "n", " ",
      "h", "e", "r", "e", ".">>
StrItemOpen == <<"BACKTICK">>
StrItemColon == <<"BACKTICK", ":">>
StrBold == <<"*", "*">>

ItemLines == {5, 42}

\* items of the form `RANGE`: **TITLE**, with and without blanks and a
\* description
ValidItems ==
    { [text |-> lead \o StrItemOpen \o RangeCore(a, b, single, sp)
                \o StrItemColon \o sep \o StrBold \o title \o StrBold \o rest,
       valid |-> TRUE, start |-> a, end |-> IF single THEN a ELSE b,
       line_range |-> RangeCore(a, b, single, sp), title |-> title] :
        a \in ItemLines, b \in ItemLines,
        single \in BOOLEAN, sp \in BOOLEAN,
        lead \in {<<>>, <<"\n", " ">>}, sep \in {<<>>, <<" ">>},
        title \in {StrFixTheBug, StrPaddedTitle},
        rest \in {<<>>, StrDescription} }

\* items that do not have that form, or whose range is not a number
InvalidItemTexts ==
    { <<"N", "o", " ", "b", "a", "c", "k", "t", "i", "c", "k", "s", " ", "o",
        "r", " ", "b", "o", "l", "d">>,
      <<"BACKTICK", "4", "2", "BACKTICK", " ">> \o StrBold \o StrFixTheBug \o StrBold,
      <<"BACKTICK", "4", "2", "BACKTICK", ":", " ", "n", "o", " ", "b", "o", "l", "d">>,
      <<"BACKTICK", "BACKTICK", ":", " ">> \o StrBold \o StrFixTheBug \o StrBold,
      <<"BACKTICK", "4", "2", "BACKTICK", ":", " ", "*", "*", "*", "*">>,
      <<"BACKTICK", "4", "2", "BACKTICK", ":", " ">> \o StrBold \o StrFixTheBug,
      <<"BACKTICK", "4", "2", ":", " ">> \o StrBold \o StrFixTheBug \o StrBold,
      <<"4", "2", ":", " ">> \o StrBold \o StrFixTheBug \o StrBold } \cup
    { StrItemOpen \o t \o StrItemColon \o <<" ">> \o StrBold \o StrFixTheBug
        \o StrBold : t \in BadRangeTexts }

ItemInputs ==
    ValidItems \cup
    { [text |-> t, valid |-> FALSE, start |-> NoneInt, end |-> NoneInt,
       line_range |-> <<>>, title |-> <<>>] : t \in InvalidItemTexts }

ItemSources == { <<"nitpick", "suggestion">>, <<"outside_diff", "minor">> }

MaxParserThreads == 3

StrIssue == <<"I", "s", "s", "u", "e">>
StrBodyMajor ==
    <<"_", "ORANGE", " ", "M", "a", "j", "o", "r", "_", "\n", "\n">>
    \o StrBold \o StrIssue \o <<" ", "1">> \o StrBold
StrBodyMinor ==
    <<"_", "YELLOW", " ", "M", "i", "n", "o", "r", "_", "\n", "\n">>
    \o StrBold \o StrIssue \o <<" ", "2">> \o StrBold \o <<" ", "\n", "x">>
StrBodyInlineBold ==
    <<"s", "e", "e", " ">> \o StrBold \o StrIssue \o StrBold
    \o <<" ", "h", "e", "r", "e">>
StrBodyPlain == <<"p", "l", "a", "i", "n", " ", "t", "e", "x", "t">>

ReviewThread(path, line, startLine, body) ==
    [path |-> path, line |-> line, startLine |-> startLine, body |-> body]

\* threads with a body, a path and a line, and threads that lack one of them
ThreadPool ==
    { ReviewThread("file1.py", 10, NoneInt, StrBodyMajor),
      ReviewThread("file2.py", 20, 18, StrBodyMinor),
      ReviewThread("file3.py", 0, NoneInt, StrBodyInlineBold),
      ReviewThread("file4.py", 30, NoneInt, StrBodyPlain),
      ReviewThread("file5.py", 40, NoneInt, <<>>),
      ReviewThread("", 50, NoneInt, StrBodyMajor),
      ReviewThread("file6.py", NoneInt, NoneInt, StrBodyMinor) }

ThreadsData ==
    { [threads |-> ts] :
        ts \in UNION { [1..n -> ThreadPool] : n \in 0..MaxParserThreads } }

ParserInit ==
    /\ WorkflowIdle
    /\ \/ pc = "line_range" /\ fin \in RangeInputs
       \/ /\ pc = "body_item"
          /\ fin \in { [item |-> it, source |-> src[1], severity |-> src[2]] :
                         it \in ItemInputs, src \in ItemSources }
       \/ pc = "threads" /\ fin \in ThreadsData
    /\ fout = <<>>

ParseThreadsApply ==
    /\ pc = "threads"
    /\ fout' = [result |-> parse_threads(fin)]
    /\ pc' = "threads_done"
    /\ UNCHANGED <<fin, WorkflowVars>>

LineRangeApply ==
    /\ pc = "line_range"
    /\ fout' = [result |-> parse_line_range(fin.text)]
    /\ pc' = "line_range_done"
    /\ UNCHANGED <<fin, WorkflowVars>>

BodyItemApply ==
    /\ pc = "body_item"
    /\ fout' = [result |-> parse_body_item("test.py", fin.item.text, fin.source,
                                           fin.severity)]
    /\ pc' = "body_item_done"
    /\ UNCHANGED <<fin, WorkflowVars>>

ParserNext == LineRangeApply \/ BodyItemApply \/ ParseThreadsApply

SpecParser == ParserInit /\ [][ParserNext]_vars

\* C19: parse_body_item gives an item with range A-B the line B and the
\* start_line A when A # B, and an item with a single line N (or A = B) the
\* line N and no start_line; line_range keeps the text between the
\* backticks; parse_line_range gives (A, B) for "A-B" and (N, N) for "N",
\* blanks and backticks around it ignored; an item of another form, or with
\* a range that is not numeric, gives None.
C19_LineRangeToTaskLines ==
    /\ (pc = "line_range_done" /\ fin.numeric) =>
          fout.result = [kind |-> "range", start |-> fin.start, end |-> fin.end]
    /\ pc = "body_item_done" =>
          IF fin.item.valid
          THEN /\ fout.result.kind = "task"
               /\ fout.result.line = fin.item.end
               /\ fout.result.start_line =
                     (IF fin.item.start # fin.item.end THEN fin.item.start
                      ELSE NoneInt)
               /\ fout.result.line_range = fin.item.line_range
               /\ fout.result.file = "test.py"
               /\ fout.result.source = fin.source
               /\ fout.result.severity = fin.severity
          ELSE fout.result = NoTask

\* the item ` 5 - 42 `-style range with a description became a task of line
\* 42 that starts at line 5
C19_Witness ==
    /\ pc = "body_item_done"
    /\ fin.item.valid
    /\ fin.item.line_range = <<"5", " ", "-", " ", "4", "2">>
    /\ fin.item.text[1] = "\n"
    /\ fout.result.line = 42
    /\ fout.result.start_line = 5

\* a thread that parse_threads has to keep
HasBodyPathLine(t) == t.body # <<>> /\ t.path # "" /\ t.line # NoneInt

\* C20: parse_threads returns one task per input thread that has a non-empty
\* body, a non-empty path and a non-null line, skips every other thread,
\* keeps the input order, and leaves every task id empty.
C20_OneTaskPerValidThread ==
    pc = "threads_done" =>
        LET kept == SelectSeq(fin.threads, HasBodyPathLine)
            tasks == fout.result
        IN /\ Len(tasks) = Len(kept)
           /\ \A i \in 1..Len(tasks) :
                /\ tasks[i].file = kept[i].path
                /\ tasks[i].line = kept[i].line
                /\ tasks[i].start_line = kept[i].startLine
                /\ tasks[i].source = "thread"
                /\ tasks[i].id = ""

\* a thread without path between a thread on line 0 and a thread on line 20:
\* two tasks, in that order
C20_Witness ==
    /\ pc = "threads_done"
    /\ Len(fin.threads) = 3
    /\ fin.threads[1].line = 0
    /\ fin.threads[2].path = ""
    /\ fin.threads[3].line = 20
    /\ Len(fout.result) = 2
    /\ fout.result[1].file = "file3.py"
    /\ fout.result[2].file = "file2.py"

-----------------------------------------------------------------------------
(* coderabbit_parser.py: the sections of a review body                     *)
(*                                                                         *)
(* The section emoji are written "BROOM", "WARN" followed by "VS16" (the   *)
(* warning sign and its variation selector) and "ROBOT".                   *)

StrBroom == <<"BROOM">>
StrWarn == <<"WARN", "VS16">>
StrRobot == <<"ROBOT">>
StrDetailsOpen == <<"<", "d", "e", "t", "a", "i", "l", "s", ">">>
StrDetailsClose == <<"<", "/", "d", "e", "t", "a", "i", "l", "s", ">">>
StrSummaryOpen == <<"<", "s", "u", "m", "m", "a", "r", "y", ">">>
StrSummaryClose == <<"<", "/", "s", "u", "m", "m", "a", "r", "y", ">">>
StrBlockquoteOpen ==
    <<"<", "b", "l", "o", "c", "k", "q", "u", "o", "t", "e", ">">>
StrBlockquoteClose ==
    <<"<", "/", "b", "l", "o", "c", "k", "q", "u", "o", "t", "e", ">">>
StrNitpickComment ==
    <<"N", "i", "t", "p", "i", "c", "k", " ", "c", "o", "m", "m", "e", "n", "t">>
StrOutsideDiffComment ==
    <<"O", "u", "t", "s", "i", "d", "e", " ", "d", "i", "f", "f", " ",
      "r", "a", "n", "g", "e", " ", "c", "o", "m", "m", "e", "n", "t">>
StrFixAllIssues ==
    <<"F", "i", "x", " ", "a", "l", "l", " ", "i", "s", "s", "u", "e", "s", " ",
      "w", "i", "t", "h", " ", "A", "I", " ", "a", "g", "e", "n", "t", "s">>

\* the indexes of s that satisfy At(_), in ascending order
PositionsWhere(s, At(_)) == SelectSeq([i \in 1..Len(s) |-> i], At)

\* str.split("\n")
SplitLines(s) ==
    LET IsBreak(i) == s[i] = "\n"
        breaks == PositionsWhere(s, IsBreak)
        From(k) == IF k = 1 THEN 1 ELSE breaks[k - 1] + 1
        To(k) == IF k = Len(breaks) + 1 THEN Len(s) ELSE breaks[k] - 1
    IN [k \in 1..(Len(breaks) + 1) |-> SubSeq(s, From(k), To(k))]

\* "\n".join(lines)
RECURSIVE JoinLines(_)
JoinLines(lines) ==
    IF lines = <<>> THEN <<>>
    ELSE IF Len(lines) = 1 THEN lines[1]
    ELSE lines[1] \o <<"\n">> \o JoinLines(Tail(lines))

\* str.lstrip(" ")
RECURSIVE LStripSpaces(_)
LStripSpaces(s) ==
    IF s # <<>> /\ Head(s) = " " THEN LStripSpaces(Tail(s)) ELSE s

\* the while loop of strip_blockquote_prefixes on one line
RECURSIVE StripQuote(_)
StripQuote(line) ==
    IF line # <<>> /\ Head(line) = ">"
    THEN StripQuote(LStripSpaces(Tail(line))) ELSE line

strip_blockquote_prefixes(text) ==
    LET lines == SplitLines(text)
    IN JoinLines([k \in 1..Len(lines) |-> StripQuote(lines[k])])

\* str.find(sub, from) with indexes counted from 1: 0 when sub is not found
Find(s, sub, from) ==
    LET hits == {i \in from..(Len(s) - Len(sub) + 1) :
                   s[i] = sub[1] /\ SubSeq(s, i, i + Len(sub) - 1) = sub}
    IN IF hits = {} THEN 0 ELSE CHOOSE i \in hits : \A j \in hits : i <= j

\* Pieces of a regular expression matched at index p of s: each gives the
\* index after the match, 0 when there is no match (or p is 0 already)
LitAt(s, p, lit) ==
    IF p # 0 /\ p + Len(lit) - 1 <= Len(s) /\ SubSeq(s, p, p + Len(lit) - 1) = lit
    THEN p + Len(lit) ELSE 0

\* a literal under re.IGNORECASE
LitAtIgnoreCase(s, p, lit) ==
    IF /\ p # 0 /\ p + Len(lit) - 1 <= Len(s)
       /\ Lower(SubSeq(s, p, p + Len(lit) - 1)) = Lower(lit)
    THEN p + Len(lit) ELSE 0

\* \s*
WsAt(s, p) ==
    LET NotSpace(c) == c \notin Whitespace
    IN IF p = 0 THEN 0 ELSE FirstIndex(s, p, NotSpace)

\* \d+
DigitsAt(s, p) ==
    LET NotDigit(c) == ~IsDigit(c)
        q == FirstIndex(s, p, NotDigit)
    IN IF p # 0 /\ q > p THEN q ELSE 0

\* section_patterns: the emoji and the words of a section's title, and
\* whether a count "(N)" follows; no pattern for any other emoji
SectionPattern(section_emoji) ==
    CASE section_emoji = StrBroom ->
           [emoji |-> StrBroom, words |-> StrNitpickComment, counted |-> TRUE]
      [] section_emoji = StrWarn ->
           [emoji |-> StrWarn, words |-> StrOutsideDiffComment, counted |-> TRUE]
      [] section_emoji = StrRobot ->
           [emoji |-> StrRobot, words |-> StrFixAllIssues, counted |-> FALSE]
      [] OTHER -> NoMatch

\* an optional literal under re.IGNORECASE: the index after it, p when it
\* is not there
OptionalLitAt(s, p, lit) ==
    IF LitAtIgnoreCase(s, p, lit) # 0 THEN LitAtIgnoreCase(s, p, lit) ELSE p

\* the rest of a counted title after its words, "s?\s*\(\d+\)"; nothing
\* more for a title without count
TitleEnd(s, words, counted) ==
    IF counted
    THEN LitAt(s, DigitsAt(s, LitAt(s, WsAt(s, OptionalLitAt(s, words, <<"s">>)),
                                    <<"(">>)),
               <<")">>)
    ELSE words

\* "\s*<blockquote>" after </summary>, when the header is to end with it
HeaderClose(s, closed, blockquote) ==
    IF blockquote
    THEN LitAtIgnoreCase(s, WsAt(s, closed), StrBlockquoteOpen)
    ELSE closed

\* the section's header matched at index p: <summary>, the emoji, blanks,
\* the title words, for a counted title an optional s, blanks and (N),
\* then </summary> and, when blockquote is asked for, blanks and
\* <blockquote>; case is ignored
HeaderAt(s, p, pattern, blockquote) ==
    HeaderClose(s,
        LitAtIgnoreCase(s,
            TitleEnd(s,
                LitAtIgnoreCase(s,
                    WsAt(s, LitAtIgnoreCase(s, p,
                                            StrSummaryOpen \o pattern.emoji)),
                    pattern.words),
                pattern.counted),
            StrSummaryClose),
        blockquote)

\* the smallest index of a set of indexes, 0 for the empty set
MinIndex(indexes) ==
    IF indexes = {} THEN 0
    ELSE CHOOSE p \in indexes : \A q \in indexes : p <= q

\* match.end() of the header that starts at p, 0 when no header was found
HeaderEndAt(s, p, pattern, blockquote) ==
    IF p = 0 THEN 0 ELSE HeaderAt(s, p, pattern, blockquote)

\* re.search of the header: match.end() of the leftmost match, 0 when
\* there is none
SearchHeader(s, pattern, blockquote) ==
    HeaderEndAt(s,
                MinIndex({p \in 1..Len(s) :
                            /\ s[p] = "<"
                            /\ HeaderAt(s, p, pattern, blockquote) # 0}),
                pattern, blockquote)

\* the content between the header and the </details> found at next_close,
\* with a trailing </blockquote> removed
SectionContent(body, start, next_close) ==
    LET content == SubSeq(body, start, next_close - 1)
    IN IF EndsWith(RStrip(content), StrBlockquoteClose)
       THEN SubSeq(RStrip(content), 1,
                   Len(RStrip(content)) - Len(StrBlockquoteClose))
       ELSE content

\* the while loop of extract_section_content: the value returned, and the
\* number of times the loop's body ran
RECURSIVE ScanDetails(_, _, _, _, _)
ScanDetails(body, start, depth, pos, iterations) ==
    IF ~(depth > 0 /\ pos <= Len(body))
    THEN [content |-> None, iterations |-> iterations]
    ELSE LET next_open == Find(body, StrDetailsOpen, pos)
             next_close == Find(body, StrDetailsClose, pos)
         IN IF next_close = 0
            THEN [content |-> None, iterations |-> iterations + 1]
            ELSE IF next_open # 0 /\ next_open < next_close
            THEN ScanDetails(body, start, depth + 1,
                             next_open + Len(StrDetailsOpen), iterations + 1)
            ELSE IF depth - 1 = 0
            THEN [content |-> SectionContent(body, start, next_close),
                  iterations |-> iterations + 1]
            ELSE ScanDetails(body, start, depth - 1,
                             next_close + Len(StrDetailsClose), iterations + 1)

\* a scan that stops at the first </details>, whatever the depth
FirstCloseAt(body, start, next_close) ==
    IF start = 0 \/ next_close = 0 THEN None
    ELSE SectionContent(body, start, next_close)

FirstCloseFrom(body, start) ==
    FirstCloseAt(body, start, Find(body, StrDetailsClose, start))

extract_section_content_FirstClose(body, section_emoji) ==
    IF SectionPattern(section_emoji) = NoMatch THEN None
    ELSE FirstCloseFrom(body, SearchHeader(body, SectionPattern(section_emoji),
                                           TRUE))

\* the fallback for the prompt section: from the header without
\* <blockquote> to the next </details>
PlainSection(body, plain, end) ==
    IF plain # 0 /\ end # 0 THEN SubSeq(body, plain, end - 1) ELSE None

PlainSectionFrom(body, plain) ==
    PlainSection(body, plain, Find(body, StrDetailsClose, plain))

\* extract_section_content once the header was searched: start is
\* match.end(), 0 when the header is not there
SectionFrom(body, section_emoji, pattern, start) ==
    IF start = 0
    THEN IF section_emoji = StrRobot
         THEN PlainSectionFrom(body, SearchHeader(body, pattern, FALSE))
         ELSE None
    ELSE ScanDetails(body, start, 1, start, 0).content

\* extract_section_content: the section's content, or None
extract_section_content(body, section_emoji) ==
    IF SectionPattern(section_emoji) = NoMatch THEN None
    ELSE SectionFrom(body, section_emoji, SectionPattern(section_emoji),
                     SearchHeader(body, SectionPattern(section_emoji), TRUE))

\* file_pattern matched at index p: <details>, blanks, <summary>, the file
\* name (lazy, no "<" or "(" in it), blanks, (N)</summary>, blanks,
\* <blockquote>, the content (lazy, any character), </blockquote>, blanks,
\* </details>; the two groups and the index after the match, or no match
FileBlockAt(s, p) ==
    LET IsStop(c) == c \in {"<", "("}
        name == LitAt(s, WsAt(s, LitAt(s, p, StrDetailsOpen)), StrSummaryOpen)
        paren == FirstIndex(s, name, IsStop)
        named == {i \in name..(paren - 1) : s[i] \notin Whitespace}
        last == IF named = {} THEN name
                ELSE CHOOSE i \in named : \A j \in named : j <= i
        content == LitAt(s, WsAt(s, LitAt(s, DigitsAt(s, LitAt(s, paren, <<"(">>)),
                                          <<")">> \o StrSummaryClose)),
                         StrBlockquoteOpen)
        BlockEnd(q) == LitAt(s, WsAt(s, LitAt(s, q, StrBlockquoteClose)),
                             StrDetailsClose)
        ends == {q \in content..Len(s) : s[q] = "<" /\ BlockEnd(q) # 0}
        end == CHOOSE q \in ends : \A r \in ends : q <= r
    IN IF name = 0 \/ paren = name \/ paren > Len(s) THEN NoMatch
       ELSE IF content = 0 \/ ends = {} THEN NoMatch
       ELSE [kind |-> "match",
             filename |-> SubSeq(s, name, last),
             content |-> SubSeq(s, content, end - 1),
             end |-> BlockEnd(end)]

\* file_pattern.finditer from index cur on: (filename, content) pairs
RECURSIVE FileBlocksFrom(_, _)
BlockThenRest(s, match) ==
    << <<Strip(match.filename), Strip(match.content)>> >>
    \o FileBlocksFrom(s, match.end)

BlocksAfter(s, first) ==
    IF first = 0 THEN <<>> ELSE BlockThenRest(s, FileBlockAt(s, first))

FileBlocksFrom(s, cur) ==
    BlocksAfter(s, MinIndex({p \in cur..Len(s) :
                               s[p] = "<" /\ FileBlockAt(s, p) # NoMatch}))

extract_file_blocks(section_content) == FileBlocksFrom(section_content, 1)

\* re.split at every place followed by a backtick and a digit
SplitBeforeItems(content) ==
    LET IsItem(i) == /\ content[i] = "BACKTICK"
                     /\ i < Len(content) /\ IsDigit(content[i + 1])
        starts == PositionsWhere(content, IsItem)
        From(k) == IF k = 0 THEN 1 ELSE starts[k]
        To(k) == IF k = Len(starts) THEN Len(content) ELSE starts[k + 1] - 1
    IN [k \in 1..(Len(starts) + 1) |-> SubSeq(content, From(k - 1), To(k - 1))]

\* parse_file_block_items: (file, item_text) pairs
parse_file_block_items(file, content) ==
    LET items == SplitBeforeItems(content)
        stripped == [k \in 1..Len(items) |-> Strip(items[k])]
        IsItemText(item) ==
            /\ Len(item) >= 2 /\ item[1] = "BACKTICK" /\ IsDigit(item[2])
        kept == SelectSeq(stripped, IsItemText)
    IN [k \in 1..Len(kept) |-> <<file, kept[k]>>]

\* the (file, item text) pairs of every file block of a section
ItemsOfBlocks(file_blocks) ==
    Flatten([b \in 1..Len(file_blocks) |->
                parse_file_block_items(file_blocks[b][1], file_blocks[b][2])])

TasksOfItems(items, source, default_severity) ==
    LET IsTask(t) == t # NoTask
    IN SelectSeq([k \in 1..Len(items) |->
                     parse_body_item(items[k][1], items[k][2], source,
                                     default_severity)],
                 IsTask)

\* the tasks of one section of the body
TasksOfSection(section_content, source, default_severity) ==
    IF ~Truthy(section_content) THEN <<>>
    ELSE TasksOfItems(ItemsOfBlocks(extract_file_blocks(section_content)),
                      source, default_severity)

SectionTasks(body, emoji, source, default_severity) ==
    TasksOfSection(extract_section_content(body, emoji), source,
                   default_severity)

\* the sections parse_review_body reads, in its order, with the source and
\* the default severity of their tasks
review_sections ==
    << [emoji |-> StrBroom, source |-> "nitpick", severity |-> "suggestion"],
       [emoji |-> StrWarn, source |-> "outside_diff", severity |-> "minor"] >>

TasksOfSections(text, sections) ==
    Flatten([k \in 1..Len(sections) |->
                SectionTasks(text, sections[k].emoji, sections[k].source,
                             sections[k].severity)])

\* a parser that labels the items of every section as nitpicks
parse_review_body_AllNitpicks(body) ==
    TasksOfSections(strip_blockquote_prefixes(body),
                    [k \in 1..Len(review_sections) |->
                        [review_sections[k] EXCEPT !.source = "nitpick",
                                                   !.severity = "suggestion"]])

\* parse_review_body: the tasks of the nitpick section, then those of the
\* outside-diff section
parse_review_body(body) ==
    TasksOfSections(strip_blockquote_prefixes(body), review_sections)

-----------------------------------------------------------------------------
(* Review bodies: extract_section_content and parse_review_body applied    *)

MaxChunks == 4
MaxFiles == 2

StrNitpickHeader ==
    StrSummaryOpen \o StrBroom \o <<" ">> \o StrNitpickComment
    \o <<"s", " ", "(", "2", ")">> \o StrSummaryClose \o StrBlockquoteOpen
    \o <<"\n">>
StrPromptHeader ==
    StrSummaryOpen \o StrRobot \o <<" ">> \o StrFixAllIssues \o StrSummaryClose

\* the pieces a body is put together from: the headers of two sections,
\* the two details tags, and a closing blockquote followed by blanks and a
\* closing details tag
Chunks ==
    { StrNitpickHeader, StrPromptHeader, StrDetailsOpen,
      StrDetailsClose, StrBlockquoteClose \o <<" ", "\n">> \o StrDetailsClose }

SectionEmoji == {StrBroom, StrWarn, StrRobot}

\* bodies with the tags balanced, nested, unbalanced and absent
ChunkedBodies ==
    { Flatten(cs) : cs \in UNION { [1..n -> Chunks] : n \in 0..MaxChunks } }

\* one item of a file block, with the task fields it stands for
BodyItem(a, b, single, title, rest) ==
    [text |-> StrItemOpen \o RangeCore(a, b, single, FALSE) \o StrItemColon
              \o <<" ">> \o StrBold \o title \o StrBold \o rest,
     valid |-> TRUE, line |-> IF single THEN a ELSE b,
     start_line |-> IF single \/ a = b THEN NoneInt ELSE a,
     line_range |-> RangeCore(a, b, single, FALSE), title |-> title]

StrFirstIssue ==
    <<"F", "i", "r", "s", "t", " ", "i", "s", "s", "u", "e">>
StrSecondIssue ==
    <<"S", "e", "c", "o", "n", "d", " ", "i", "s", "s", "u", "e">>
StrSuggestedFix ==
    <<"\n", "\n">> \o StrDetailsOpen \o <<"\n">> \o StrSummaryOpen
    \o <<"F", "i", "x">> \o StrSummaryClose \o <<"\n", "\n", "c", "o", "d", "e",
                                               "\n", "\n">>
    \o StrDetailsClose

ItemRange == BodyItem(10, 20, FALSE, StrFirstIssue, StrDescription)
\* an item whose text holds a details block of its own
ItemWithFix == BodyItem(30, 30, TRUE, StrSecondIssue, StrSuggestedFix)
\* an item that parse_body_item does not accept
ItemNoTitle ==
    [text |-> <<"BACKTICK", "7", "BACKTICK", ":", " ", "n", "o", " ", "b", "o",
                "l", "d">>,
     valid |-> FALSE, line |-> NoneInt, start_line |-> NoneInt,
     line_range |-> <<>>, title |-> <<>>]

FileBlock(name, items) == [name |-> name, items |-> items]

FilePool ==
    { FileBlock(<<"a", ".", "p", "y">>, <<ItemRange, ItemWithFix>>),
      FileBlock(<<"s", "r", "c", "/", "b", ".", "p", "y">>, <<ItemWithFix>>),
      FileBlock(<<"c", ".", "p", "y">>, <<ItemNoTitle, ItemRange>>) }

\* the text of a file block, as the review tool writes it
RECURSIVE RenderItems(_)
RenderItems(items) ==
    IF items = <<>> THEN <<>>
    ELSE items[1].text \o <<"\n", "\n">> \o RenderItems(Tail(items))

RenderFile(file) ==
    StrDetailsOpen \o <<"\n">> \o StrSummaryOpen \o file.name \o <<" ", "(">>
    \o IntToStr(Len(file.items)) \o <<")">> \o StrSummaryClose
    \o StrBlockquoteOpen \o <<"\n", "\n">> \o RenderItems(file.items)
    \o StrBlockquoteClose \o StrDetailsClose \o <<"\n">>

\* the text of a section: its header, its file blocks, its closing tags
RenderSection(emoji, files) ==
    StrDetailsOpen \o <<"\n">> \o StrSummaryOpen \o emoji \o <<" ">>
    \o SectionPattern(emoji).words \o <<"s", " ", "(">>
    \o IntToStr(Len(files)) \o <<")">> \o StrSummaryClose \o StrBlockquoteOpen
    \o <<"\n">> \o Flatten([k \in 1..Len(files) |-> RenderFile(files[k])])
    \o StrBlockquoteClose \o StrDetailsClose \o <<"\n">>

\* the text with every line quoted: "> " before a line, ">" for an empty one
QuoteLines(text) ==
    LET lines == SplitLines(text)
    IN JoinLines([k \in 1..Len(lines) |->
                    IF lines[k] = <<>> THEN <<">">>
                    ELSE <<">", " ">> \o lines[k]])

FileLists == UNION { [1..n -> FilePool] : n \in 1..MaxFiles }

\* a review body: the nitpick section (absent when it has no files), the
\* outside-diff section, which of them comes first, and which are quoted
ReviewBodies ==
    { [nitpick |-> n, outside |-> o, outside_first |-> f,
       nitpick_quoted |-> qn, outside_quoted |-> qo] :
        n \in { <<>>,
                <<FileBlock(<<"n", ".", "p", "y">>, <<ItemRange>>)>>,
                <<FileBlock(<<"c", ".", "p", "y">>, <<ItemNoTitle, ItemRange>>),
                  FileBlock(<<"n", ".", "p", "y">>, <<ItemWithFix>>)>> },
        o \in {<<>>} \cup FileLists,
        f \in BOOLEAN, qn \in BOOLEAN, qo \in BOOLEAN }

RenderBody(review) ==
    LET Quoted(text, q) == IF q THEN QuoteLines(text) ELSE text
        nitpick == IF review.nitpick = <<>> THEN <<>>
                   ELSE Quoted(RenderSection(StrBroom, review.nitpick),
                               review.nitpick_quoted)
        outside == IF review.outside = <<>> THEN <<>>
                   ELSE Quoted(RenderSection(StrWarn, review.outside),
                               review.outside_quoted)
        intro == <<"S", "u", "m", "m", "a", "r", "y", "\n", "\n">>
    IN IF review.outside_first THEN intro \o outside \o <<"\n">> \o nitpick
       ELSE intro \o nitpick \o <<"\n">> \o outside

BodyInit ==
    /\ WorkflowIdle
    /\ \/ /\ pc = "section"
          /\ fin \in { [body |-> b, section_emoji |-> e] :
                         b \in ChunkedBodies, e \in SectionEmoji }
       \/ pc = "review_body" /\ fin \in ReviewBodies
    /\ fout = <<>>

\* the number of times the loop of extract_section_content runs
ScanIterationsFrom(body, start) ==
    IF start = 0 THEN 0 ELSE ScanDetails(body, start, 1, start, 0).iterations

ScanIterations(body, section_emoji) ==
    IF SectionPattern(section_emoji) = NoMatch THEN 0
    ELSE ScanIterationsFrom(body, SearchHeader(body,
                                               SectionPattern(section_emoji),
                                               TRUE))

ExtractSectionApply ==
    /\ pc = "section"
    /\ fout' = [result |-> extract_section_content(fin.body, fin.section_emoji),
                iterations |-> ScanIterations(fin.body, fin.section_emoji)]
    /\ pc' = "section_done"
    /\ UNCHANGED <<fin, WorkflowVars>>

ReviewBodyApply ==
    /\ pc = "review_body"
    /\ fout' = [result |-> parse_review_body(RenderBody(fin))]
    /\ pc' = "review_body_done"
    /\ UNCHANGED <<fin, WorkflowVars>>

BodyNext == ExtractSectionApply \/ ReviewBodyApply

SpecBody == BodyInit /\ [][BodyNext]_vars

\* the tasks that the items of a section stand for, in the order written
ItemTasks(files, source, severity) ==
    LET items == Flatten([f \in 1..Len(files) |->
                   [k \in 1..Len(files[f].items) |->
                      [item |-> files[f].items[k], file |-> files[f].name]]])
        IsValid(x) == x.item.valid
        valid == SelectSeq(items, IsValid)
    IN [k \in 1..Len(valid) |->
          [kind |-> "task", id |-> "", file |-> valid[k].file,
           line |-> valid[k].item.line, start_line |-> valid[k].item.start_line,
           line_range |-> valid[k].item.line_range,
           title |-> valid[k].item.title,
           severity |-> severity, source |-> source]]

\* C21: parse_review_body returns the tasks of the Nitpick section with
\* source NITPICK and severity SUGGESTION, followed by the tasks of the
\* Outside-diff-range section with source OUTSIDE_DIFF and severity MINOR,
\* whichever section is written first and whether or not a section is
\* quoted with ">" prefixes; no task has source THREAD and no outside-diff
\* task precedes a nitpick task.
C21_TasksLabelledBySection ==
    pc = "review_body_done" =>
        /\ fout.result = ItemTasks(fin.nitpick, "nitpick", "suggestion")
                         \o ItemTasks(fin.outside, "outside_diff", "minor")
        /\ \A i \in 1..Len(fout.result) :
              /\ fout.result[i].source # "thread"
              /\ <<fout.result[i].source, fout.result[i].severity>>
                    \in {<<"nitpick", "suggestion">>, <<"outside_diff", "minor">>}
              /\ \A j \in 1..(i - 1) :
                    fout.result[i].source = "nitpick"
                        => fout.result[j].source = "nitpick"

\* a quoted outside-diff section written before the nitpick section, both
\* giving tasks
C21_Witness ==
    /\ pc = "review_body_done"
    /\ fin.outside_first /\ fin.outside_quoted /\ ~fin.nitpick_quoted
    /\ \E i \in 1..Len(fout.result) : fout.result[i].source = "nitpick"
    /\ \E i \in 1..Len(fout.result) :
          /\ fout.result[i].source = "outside_diff"
          /\ fout.result[i].severity = "minor"

\* the indexes from start on at which tag is written
TagsFrom(body, tag, start) ==
    {i \in start..(Len(body) - Len(tag) + 1) :
        body[i] = tag[1] /\ SubSeq(body, i, i + Len(tag) - 1) = tag}

\* the depth after the </details> at index q: 1 at start, one more for
\* every <details> before q, one less for every </details> up to q
DepthAfter(body, start, q) ==
    1 + Cardinality({o \in TagsFrom(body, StrDetailsOpen, start) : o < q})
      - Cardinality({c \in TagsFrom(body, StrDetailsClose, start) : c <= q})

\* the first </details> at which the depth is 0; 0 when there is none
BalancingClose(body, start) ==
    LET zero == {q \in TagsFrom(body, StrDetailsClose, start) :
                   DepthAfter(body, start, q) = 0}
    IN IF zero = {} THEN 0 ELSE CHOOSE q \in zero : \A r \in zero : q <= r

HeaderEnd(body, section_emoji) ==
    SearchHeader(body, SectionPattern(section_emoji), TRUE)

\* C26: after a section header <summary>...</summary><blockquote>,
\* extract_section_content returns the text from the header up to the
\* first </details> at which the depth (1 after the header, raised by each
\* <details>, lowered by each </details>) is 0, without a trailing
\* </blockquote>, so that the <details> tags inside the content are
\* balanced; it returns None when there is no such </details> and when the
\* header is absent; the loop runs at most once per tag after the header,
\* and once more.
C26_SectionContentByDepth ==
    pc = "section_done" =>
        LET start == HeaderEnd(fin.body, fin.section_emoji)
            close == BalancingClose(fin.body, start)
            content == SubSeq(fin.body, start, close - 1)
        IN /\ start # 0 /\ close # 0 =>
                /\ fout.result =
                     IF EndsWith(RStrip(content), StrBlockquoteClose)
                     THEN RemoveSuffix(RStrip(content), StrBlockquoteClose)
                     ELSE content
                /\ Cardinality(TagsFrom(fout.result, StrDetailsOpen, 1))
                     = Cardinality(TagsFrom(fout.result, StrDetailsClose, 1))
           /\ start # 0 /\ close = 0 => fout.result = None
           /\ SearchHeader(fin.body, SectionPattern(fin.section_emoji), FALSE) = 0
                => fout.result = None
           /\ start # 0 =>
                fout.iterations
                  <= Cardinality(TagsFrom(fin.body, StrDetailsOpen, start))
                     + Cardinality(TagsFrom(fin.body, StrDetailsClose, start)) + 1
           /\ start = 0 => fout.iterations = 0

\* a section whose content holds a nested details block and ends with a
\* closing blockquote
C26_Witness ==
    /\ pc = "section_done"
    /\ fout.result # None
    /\ HeaderEnd(fin.body, fin.section_emoji) # 0
    /\ TagsFrom(fout.result, StrDetailsOpen, 1) # {}
    /\ fout.iterations = 3
    /\ fout.result # SubSeq(fin.body, HeaderEnd(fin.body, fin.section_emoji),
                            BalancingClose(fin.body,
                                HeaderEnd(fin.body, fin.section_emoji)) - 1)

\* a header followed by more <details> than </details>
C26_UnbalancedWitness ==
    /\ pc = "section_done"
    /\ fout.result = None
    /\ HeaderEnd(fin.body, fin.section_emoji) # 0
    /\ TagsFrom(fin.body, StrDetailsClose, HeaderEnd(fin.body, fin.section_emoji)) # {}

-----------------------------------------------------------------------------
(* coderabbit_parser.py: parse_input and main                              *)

StrTaskDash == <<"t", "a", "s", "k", "-">>

\* f"{i:03d}": zeros in front of fewer than three digits
ZeroPadded(i) ==
    LET digits == IntToStr(i)
    IN [k \in 1..(IF Len(digits) < 3 THEN 3 - Len(digits) ELSE 0) |-> "0"]
       \o digits

\* task.id = f"task-{i:03d}" for i, task in enumerate(all_tasks, start=1)
AssignIds(all_tasks) ==
    [i \in 1..Len(all_tasks) |->
        [all_tasks[i] EXCEPT !.id = StrTaskDash \o ZeroPadded(i)]]

\* ids taken from the place in the input, before the sort
AssignIds_BeforeSort(thread_tasks, body_tasks) ==
    merge_tasks(AssignIds(thread_tasks),
                [i \in 1..Len(body_tasks) |->
                    [body_tasks[i] EXCEPT
                        !.id = StrTaskDash \o ZeroPadded(Len(thread_tasks) + i)]])

\* Paths are TLA+ strings; the file name that extract_file_blocks cuts out
\* of a review body is the path that it spells
PathOf(filename) ==
    CASE filename = <<"a", ".", "p", "y">> -> "a.py"
      [] filename = <<"b", ".", "p", "y">> -> "b.py"
      [] filename = <<"c", ".", "p", "y">> -> "c.py"
      [] OTHER -> "other"

\* body_tasks.extend(parse_review_body(body)) for every review body
WithPaths(parsed) ==
    [k \in 1..Len(parsed) |->
        [parsed[k] EXCEPT !.file = PathOf(parsed[k].file)]]

BodyTasksOf(review_bodies) ==
    WithPaths(Flatten([b \in 1..Len(review_bodies) |->
                          parse_review_body(review_bodies[b])]))

\* the merged tasks of parse_input, with their ids
MergedWithIds(thread_tasks, body_tasks) ==
    AssignIds(merge_tasks(thread_tasks, body_tasks))

\* parse_input, after json.load
parse_input(data) ==
    generate_output(MergedWithIds(parse_threads(data),
                                  BodyTasksOf(data.review_bodies)))

severity_order == <<"major", "minor", "suggestion">>

\* severity_order.index(s)
SeverityIndex(s) == CHOOSE i \in 1..Len(severity_order) : severity_order[i] = s

\* a filter that leaves the summary of the unfiltered tasks in place
FilterBySeverity_KeepsSummary(result, severity) ==
    LET Kept(t) == SeverityIndex(t.severity) <= SeverityIndex(severity)
    IN IF severity = "" THEN result
       ELSE [tasks |-> SelectSeq(result.tasks, Kept), summary |-> result.summary]

\* the dict that main prints for a parsed result and a --severity option
\* ("" when the option is absent)
FilterBySeverity(result, severity) ==
    LET Kept(t) == SeverityIndex(t.severity) <= SeverityIndex(severity)
        kept == SelectSeq(result.tasks, Kept)
    IN IF severity = "" THEN result
       ELSE [tasks |-> kept, summary |-> summary_of(kept)]

\* main: the exit status and what is printed on stdout; argparse refuses a
\* --severity outside its choices with status 2 before the input is read,
\* input that is not JSON ends with status 1
main(args) ==
    IF args.severity # "" /\ args.severity \notin Range(severity_order)
    THEN [exit |-> 2, stdout |-> None]
    ELSE IF ~args.input.json THEN [exit |-> 1, stdout |-> None]
    ELSE [exit |-> 0,
          stdout |-> FilterBySeverity(parse_input(args.input.data), args.severity)]

-----------------------------------------------------------------------------
(* Specification SpecReview: parse_input and main on drawn input           *)

MaxInputThreads == 2
MaxBodies == 2

\* review threads: one with the key of an item of the review bodies, one
\* of each severity
InputThreadPool ==
    { ReviewThread("a.py", 20, 10,
                   <<"_", "ORANGE", " ", "M", "a", "j", "o", "r", "_", "\n", "\n">>
                   \o StrBold \o StrFirstIssue \o StrBold),
      ReviewThread("b.py", 5, NoneInt, StrBodyMinor),
      ReviewThread("a.py", 3, NoneInt, StrBodyPlain) }

\* review bodies: two that share an item, in different sections
InputBodyPool ==
    { RenderBody([nitpick |-> <<FileBlock(<<"a", ".", "p", "y">>,
                                          <<ItemRange, ItemWithFix>>)>>,
                  outside |-> <<FileBlock(<<"b", ".", "p", "y">>,
                                          <<ItemWithFix>>)>>,
                  outside_first |-> FALSE, nitpick_quoted |-> FALSE,
                  outside_quoted |-> FALSE]),
      RenderBody([nitpick |-> <<FileBlock(<<"c", ".", "p", "y">>,
                                          <<ItemWithFix>>)>>,
                  outside |-> <<FileBlock(<<"a", ".", "p", "y">>,
                                          <<ItemRange>>)>>,
                  outside_first |-> TRUE, nitpick_quoted |-> FALSE,
                  outside_quoted |-> TRUE]) }

InputData ==
    { [threads |-> ts, review_bodies |-> bs] :
        ts \in UNION { [1..n -> InputThreadPool] : n \in 0..MaxInputThreads },
        bs \in UNION { [1..n -> InputBodyPool] : n \in 0..MaxBodies } }

\* the input file: JSON with its data, or text that is not JSON
InputFiles ==
    { [json |-> TRUE, data |-> d] : d \in InputData }
    \cup { [json |-> FALSE, data |-> [threads |-> <<>>, review_bodies |-> <<>>]] }

SeverityOptions == {"", "major", "minor", "suggestion", "critical"}

ReviewInit ==
    /\ WorkflowIdle
    /\ \/ pc = "parse_input" /\ fin \in InputData
       \/ /\ pc = "main"
          /\ fin \in { [severity |-> s, input |-> f] :
                         s \in SeverityOptions, f \in InputFiles }
    /\ fout = <<>>

ParseInputApply ==
    /\ pc = "parse_input"
    /\ fout' = [result |-> parse_input(fin)]
    /\ pc' = "parse_input_done"
    /\ UNCHANGED <<fin, WorkflowVars>>

MainApply ==
    /\ pc = "main"
    /\ fout' = main(fin)
    /\ pc' = "main_done"
    /\ UNCHANGED <<fin, WorkflowVars>>

ReviewNext == ParseInputApply \/ MainApply

SpecReview == ReviewInit /\ [][ReviewNext]_vars

\* the severities that a minimum severity lets through
AtLeast(severity) ==
    CASE severity = "major" -> {"major"}
      [] severity = "minor" -> {"major", "minor"}
      [] severity = "suggestion" -> {"major", "minor", "suggestion"}
      [] OTHER -> {}

\* the number of the dicts of tasks whose field has the value
CountField(tasks, field, value) ==
    Cardinality({i \in 1..Len(tasks) : tasks[i][field] = value})

\* C22: with --severity S, main prints exactly the tasks of parse_input
\* whose severity is at least S (major: major; minor: major and minor;
\* suggestion: all), in their order, with a summary whose total, by_severity,
\* by_source and by_file count the printed tasks; without the option it
\* prints parse_input's result; a severity outside the three values ends
\* with a non-zero status and prints nothing.
C22_SeverityFilter ==
    pc = "main_done" =>
        LET all == parse_input(fin.input.data)
            tasks == fout.stdout.tasks
            sm == fout.stdout.summary
            Passes(t) == t.severity \in AtLeast(fin.severity)
        IN /\ fin.severity \notin {""} \cup Severities =>
                fout.exit # 0 /\ fout.stdout = None
           /\ fin.severity = "" /\ fin.input.json =>
                fout.exit = 0 /\ fout.stdout = all
           /\ fin.severity \in Severities /\ fin.input.json =>
                /\ fout.exit = 0
                /\ tasks = SelectSeq(all.tasks, Passes)
                /\ sm.total = Len(tasks)
                /\ \A s \in Severities :
                      sm.by_severity[s] = CountField(tasks, "severity", s)
                /\ \A s \in TaskSources :
                      sm.by_source[s] = CountField(tasks, "source", s)
                /\ DOMAIN sm.by_file = {tasks[i].file : i \in 1..Len(tasks)}
                /\ \A f \in DOMAIN sm.by_file :
                      sm.by_file[f] = CountField(tasks, "file", f)

\* --severity minor on input with a suggestion, which is dropped, and a
\* major and a minor task, which are kept
C22_Witness ==
    /\ pc = "main_done"
    /\ fin.severity = "minor" /\ fin.input.json
    /\ fout.exit = 0
    /\ Len(fout.stdout.tasks) < Len(parse_input(fin.input.data).tasks)
    /\ fout.stdout.summary.by_severity.major > 0
    /\ fout.stdout.summary.by_severity.minor > 0
    /\ fout.stdout.summary.total < parse_input(fin.input.data).summary.total

\* a severity that is not one of the three
C22_RejectedWitness ==
    pc = "main_done" /\ fin.severity = "critical" /\ fout.exit = 2

\* the sort key of a task of the output, which has a start_line only when
\* the task has one: (file, start_line or line, line)
OutputKey(t) ==
    <<FileRank(t.file),
      IF "start_line" \in DOMAIN t /\ t.start_line # 0 THEN t.start_line
      ELSE t.line,
      t.line>>

\* key a is not after key b
KeyOrdered(a, b) ==
    \/ a[1] < b[1]
    \/ a[1] = b[1] /\ a[2] < b[2]
    \/ a[1] = b[1] /\ a[2] = b[2] /\ a[3] <= b[3]

Reversed(s) == [i \in 1..Len(s) |-> s[Len(s) + 1 - i]]

\* C28: the tasks of parse_input's output are in ascending order of
\* (file, start_line or line, line), and the i-th of them has the id
\* "task-" followed by i in three digits, so that the ids are distinct and
\* run from task-001 without a gap; with the threads and the review bodies
\* of the input in the opposite order the keys and the ids are the same,
\* place by place.
C28_IdsFollowSortedOrder ==
    pc = "parse_input_done" =>
        LET tasks == fout.result.tasks
            other == parse_input([threads |-> Reversed(fin.threads),
                                  review_bodies |-> Reversed(fin.review_bodies)]).tasks
        IN /\ \A i \in 1..Len(tasks) :
                /\ i < 10 => tasks[i].id = <<"t", "a", "s", "k", "-", "0", "0",
                                             Digits[i + 1]>>
                /\ i >= 10 /\ i < 100 =>
                      tasks[i].id = <<"t", "a", "s", "k", "-", "0",
                                      Digits[(i \div 10) + 1], Digits[(i % 10) + 1]>>
                /\ \A j \in 1..(i - 1) :
                      /\ KeyOrdered(OutputKey(tasks[j]), OutputKey(tasks[i]))
                      /\ tasks[j].id # tasks[i].id
           /\ Len(other) = Len(tasks)
           /\ \A i \in 1..Len(tasks) :
                /\ other[i].id = tasks[i].id
                /\ OutputKey(other[i]) = OutputKey(tasks[i])

\* threads and review bodies given in an order that is not the sorted one:
\* the first task of the output comes from the last thread of the input, and
\* tasks of the review bodies stand between tasks of the threads
C28_Witness ==
    /\ pc = "parse_input_done"
    /\ Len(fin.threads) = 2 /\ Len(fin.review_bodies) = 2
    /\ Len(fout.result.tasks) >= 4
    /\ fout.result.tasks[1].line = fin.threads[2].line
    /\ fout.result.tasks[1].source = "thread"
    /\ fout.result.tasks[2].source # "thread"
    /\ fout.result.tasks[Len(fout.result.tasks)].id
         = StrTaskDash \o <<"0", "0", Digits[Len(fout.result.tasks) + 1]>>

(***************************************************************************)
(* hooks/dangerous_cmd.py: the dangerous-command hook                      *)
(***************************************************************************)

\* guardrails/constants.py: (pattern, message) pairs, matched as substrings
BLOCKED_COMMANDS ==
    << <<<<"r", "m", " ", "-", "r", "f", " ", "/">>, <<"R", "e", "f", "u",
        "s", "i", "n", "g", " ", "t", "o", " ", "d", "e", "l", "e", "t", "e",
        " ", "r", "o", "o", "t">>>>,
       <<<<"-", "-", "n", "o", "-", "v", "e", "r", "i", "f", "y">>, <<"-",
           "-", "n", "o", "-", "v", "e", "r", "i", "f", "y", " ", "i", "s",
           " ", "n", "o", "t", " ", "a", "l", "l", "o", "w", "e", "d">>>> >>

WARNED_COMMANDS ==
    << <<<<"r", "m", " ", "-", "r", "f">>, <<"R", "e", "c", "u", "r", "s",
        "i", "v", "e", " ", "f", "o", "r", "c", "e", " ", "d", "e", "l", "e",
        "t", "e">>>>,
       <<<<"c", "h", "m", "o", "d", " ", "-", "R", " ", "7", "7", "7">>,
           <<"I", "n", "s", "e", "c", "u", "r", "e", " ", "p", "e", "r", "m",
           "i", "s", "s", "i", "o", "n", "s">>>>,
       <<<<"|", " ", "b", "a", "s", "h">>, <<"P", "i", "p", "i", "n", "g",
           " ", "t", "o", " ", "b", "a", "s", "h">>>>,
       <<<<"-", "-", "f", "o", "r", "c", "e", "-", "w", "i", "t", "h", "-",
           "l", "e", "a", "s", "e">>, <<"F", "o", "r", "c", "e", " ", "p",
           "u", "s", "h", " ", "w", "i", "t", "h", " ", "l", "e", "a", "s",
           "e">>>> >>

Letters ==
    {"a", "b", "c", "d", "e", "f", "g", "h", "i", "j", "k", "l", "m", "n",
        "o", "p", "q", "r", "s", "t", "u", "v", "w", "x", "y", "z", "A", "B",
        "C", "D", "E", "F", "G", "H", "I", "J", "K", "L", "M", "N", "O", "P",
        "Q", "R", "S", "T", "U", "V", "W", "X", "Y", "Z"}

\* \w
WordChars == Letters \cup Range(Digits) \cup {"_"}

\* \b after a word character: no word character at p
BoundaryAt(s, p) ==
    IF p # 0 /\ (p > Len(s) \/ s[p] \notin WordChars) THEN p ELSE 0

\* \s+
SpacesAt(s, p) == LET q == WsAt(s, p) IN IF q > p THEN q ELSE 0

\* git\s+<word>\s+ : every index the second \s+ can stop at
GitWordAt(s, p, word) ==
    LET w == LitAt(s, SpacesAt(s, LitAt(s, p, <<"g", "i", "t">>)), word)
    IN IF SpacesAt(s, w) = 0 THEN {} ELSE (w + 1)..SpacesAt(s, w)

\* .* from p: every index it can stop at (it does not cross a newline)
DotStarFrom(s, p) ==
    IF p = 0 THEN {}
    ELSE {q \in p..(Len(s) + 1) : \A i \in p..(q - 1) : s[i] # "\n"}

\* git\s+commit\b.*\s-n\b
CommitShortNoVerify(s) ==
    \E p \in 1..Len(s) :
        LET c == BoundaryAt(s, LitAt(s, SpacesAt(s, LitAt(s, p, <<"g", "i",
            "t">>)),
                                     <<"c", "o", "m", "m", "i", "t">>))
        IN \E q \in DotStarFrom(s, c) :
               /\ q <= Len(s) /\ s[q] \in Whitespace
               /\ BoundaryAt(s, LitAt(s, q + 1, <<"-", "n">>)) # 0

\* dd\s+if=.*of=/dev/
DdToDevice(s) ==
    \E p \in 1..Len(s) :
        LET c == LitAt(s, SpacesAt(s, LitAt(s, p, <<"d", "d">>)), <<"i", "f",
            "=">>)
        IN \E q \in DotStarFrom(s, c) : LitAt(s, q, <<"o", "f", "=", "/", "d",
            "e", "v", "/">>) # 0

\* _SPECIAL_BLOCKS: whether each expression is found, and its message
_SPECIAL_BLOCKS(command) ==
    << [found |-> CommitShortNoVerify(command),
        message |-> <<"g", "i", "t", " ", "c", "o", "m", "m", "i", "t", " ",
            "-", "n", " ", "i", "s", " ", "s", "h", "o", "r", "t", " ", "f",
            "o", "r", " ", "-", "-", "n", "o", "-", "v", "e", "r", "i", "f",
            "y", ".">> \o <<"\n">>
                    \o <<" ", " ", "T", "h", "i", "s", " ", "i", "s", " ",
                        "n", "e", "v", "e", "r", " ", "a", "l", "l", "o", "w",
                        "e", "d", ".", " ", "F", "i", "x", " ", "t", "h", "e",
                        " ", "i", "s", "s", "u", "e", " ", "t", "h", "a", "t",
                        "'", "s", " ">>
                    \o <<"c", "a", "u", "s", "i", "n", "g", " ", "h", "o",
                        "o", "k", "s", " ", "t", "o", " ", "f", "a", "i", "l",
                        ".">>],
       [found |-> DdToDevice(command),
        message |-> <<"R", "e", "f", "u", "s", "i", "n", "g", " ", "t", "o",
            " ", "w", "r", "i", "t", "e", " ", "d", "i", "r", "e", "c", "t",
            "l", "y", " ", "t", "o", " ", "b", "l", "o", "c", "k", " ", "d",
            "e", "v", "i", "c", "e">>] >>

_FORCE_FLAG_COMMANDS == <<<<"g", "i", "t", " ", "p", "u", "s", "h">>, <<"g",
    "i", "t", " ", "r", "e", "s", "e", "t">>, <<"d", "o", "c", "k", "e", "r",
    " ", "r", "m">>>>

\* git\s+reset\s+--hard\b
ResetHard(s) ==
    \E p \in 1..Len(s) : \E a \in GitWordAt(s, p, <<"r", "e", "s", "e",
        "t">>) :
        BoundaryAt(s, LitAt(s, a, <<"-", "-", "h", "a", "r", "d">>)) # 0

\* (?:\s*$|\s*&&|\s*;|\s*\|) at p
AfterDot(s, p) ==
    LET r == WsAt(s, p)
    IN \/ r > Len(s)
       \/ LitAt(s, r, <<"&", "&">>) # 0
       \/ LitAt(s, r, <<";">>) # 0
       \/ LitAt(s, r, <<"|">>) # 0

\* \.(?:\s*$|\s*&&|\s*;|\s*\|) at p
DotAt(s, p) == LitAt(s, p, <<".">>) # 0 /\ AfterDot(s, p + 1)

\* git\s+checkout\s+(?:--\s+)?\.(?:\s*$|\s*&&|\s*;|\s*\|)
CheckoutDot(s) ==
    \E p \in 1..Len(s) : \E a \in GitWordAt(s, p, <<"c", "h", "e", "c", "k",
        "o", "u", "t">>) :
        \/ DotAt(s, a)
        \/ LET b == SpacesAt(s, LitAt(s, a, <<"-", "-">>))
           IN b # 0 /\ DotAt(s, b)

\* (?:--?\S+\s+)* from p: every index it can stop at; one round takes a
\* word of two or more characters that starts with "-" and the blanks
\* after it
RECURSIVE FlagsFrom(_, _)
FlagsFrom(s, p) ==
    LET IsSpace(c) == c \in Whitespace
        stop == FirstIndex(s, p, IsSpace)
    IN IF p <= Len(s) /\ s[p] = "-" /\ stop >= p + 2 /\ SpacesAt(s, stop) # 0
       THEN {p} \cup FlagsFrom(s, SpacesAt(s, stop))
       ELSE {p}

\* git\s+restore\s+(?:--?\S+\s+)*\.(?:\s*$|\s*&&|\s*;|\s*\|)
RestoreDot(s) ==
    \E p \in 1..Len(s) : \E a \in GitWordAt(s, p, <<"r", "e", "s", "t", "o",
        "r", "e">>) :
        \E b \in FlagsFrom(s, a) : DotAt(s, b)

\* git\s+clean\s+(?:-[a-zA-Z]*f|--force)
CleanForce(s) ==
    \E p \in 1..Len(s) : \E a \in GitWordAt(s, p, <<"c", "l", "e", "a",
        "n">>) :
        \/ LitAt(s, a, <<"-", "-", "f", "o", "r", "c", "e">>) # 0
        \/ /\ LitAt(s, a, <<"-">>) # 0
           /\ \E k \in (a + 1)..Len(s) :
                  /\ s[k] = "f"
                  /\ \A i \in (a + 1)..(k - 1) : s[i] \in Letters

\* git\s+branch\s+(?:-D\b|.*--delete\s+--force|.*--force\s+--delete)
BranchForceDelete(s) ==
    \E p \in 1..Len(s) : \E a \in GitWordAt(s, p, <<"b", "r", "a", "n", "c",
        "h">>) :
        \/ BoundaryAt(s, LitAt(s, a, <<"-", "D">>)) # 0
        \/ \E q \in DotStarFrom(s, a) :
               \/ LitAt(s, SpacesAt(s, LitAt(s, q, <<"-", "-", "d", "e", "l",
                   "e", "t", "e">>)),
                        <<"-", "-", "f", "o", "r", "c", "e">>) # 0
               \/ LitAt(s, SpacesAt(s, LitAt(s, q, <<"-", "-", "f", "o", "r",
                   "c", "e">>)),
                        <<"-", "-", "d", "e", "l", "e", "t", "e">>) # 0

\* _SPECIAL_WARNS: whether each expression is found, and its message
_SPECIAL_WARNS(command) ==
    << [found |-> ResetHard(command),
        message |-> <<"g", "i", "t", " ", "r", "e", "s", "e", "t", " ", "-",
            "-", "h", "a", "r", "d", " ", "d", "i", "s", "c", "a", "r", "d",
            "s", " ", "u", "n", "c", "o", "m", "m", "i", "t", "t", "e", "d",
            " ", "c", "h", "a", "n", "g", "e", "s">>],
       [found |-> CheckoutDot(command),
        message |-> <<"g", "i", "t", " ", "c", "h", "e", "c", "k", "o", "u",
            "t", " ", ".", " ", "d", "i", "s", "c", "a", "r", "d", "s", " ",
            "a", "l", "l", " ", "u", "n", "s", "t", "a", "g", "e", "d", " ",
            "c", "h", "a", "n", "g", "e", "s">>],
       [found |-> RestoreDot(command),
        message |-> <<"g", "i", "t", " ", "r", "e", "s", "t", "o", "r", "e",
            " ", ".", " ", "d", "i", "s", "c", "a", "r", "d", "s", " ", "a",
            "l", "l", " ", "u", "n", "s", "t", "a", "g", "e", "d", " ", "c",
            "h", "a", "n", "g", "e", "s">>],
       [found |-> CleanForce(command),
        message |-> <<"g", "i", "t", " ", "c", "l", "e", "a", "n", " ", "-",
            "f", " ", "r", "e", "m", "o", "v", "e", "s", " ", "u", "n", "t",
            "r", "a", "c", "k", "e", "d", " ", "f", "i", "l", "e", "s", " ",
            "p", "e", "r", "m", "a", "n", "e", "n", "t", "l", "y">>],
       [found |-> BranchForceDelete(command),
        message |-> <<"g", "i", "t", " ", "b", "r", "a", "n", "c", "h", " ",
            "-", "D", " ", "f", "o", "r", "c", "e", "-", "d", "e", "l", "e",
            "t", "e", "s", " ", "b", "r", "a", "n", "c", "h", " ", "w", "i",
            "t", "h", "o", "u", "t", " ", "m", "e", "r", "g", "e", " ", "c",
            "h", "e", "c", "k">>] >>

\* \s-f\b
ShortForceFlag(s) ==
    \E q \in 1..Len(s) :
        s[q] \in Whitespace /\ BoundaryAt(s, LitAt(s, q + 1, <<"-",
            "f">>)) # 0

StrForceFlag == <<"F", "o", "r", "c", "e", " ", "f", "l", "a", "g", " ", "o",
    "n", " ", "d", "e", "s", "t", "r", "u", "c", "t", "i", "v", "e", " ", "o",
    "p", "e", "r", "a", "t", "i", "o", "n">>

\* A str argument, and any other value handed over as the command
IsStr(value) == value.type = "string"

\* _check_blocked: the message of the first blocked pattern found, None
\* when there is none; "pattern in command" raises TypeError for a
\* command that is a number
_check_blocked(command) ==
    LET table == SelectSeq(BLOCKED_COMMANDS,
                           LAMBDA e : Contains(command.value, e[1]))
        special == SelectSeq(_SPECIAL_BLOCKS(command.value),
                             LAMBDA e : e.found)
    IN IF ~IsStr(command) THEN [raised |-> "TypeError"]
       ELSE IF table # <<>> THEN [raised |-> "", message |-> table[1][2]]
       ELSE IF special # <<>>
            THEN [raised |-> "", message |-> special[1].message]
       ELSE [raised |-> "", message |-> None]

\* _check_warned: the messages of all warning patterns found, in order
_check_warned(command) ==
    LET table == SelectSeq(WARNED_COMMANDS,
                           LAMBDA e : Contains(command, e[1]))
        special == SelectSeq(_SPECIAL_WARNS(command), LAMBDA e : e.found)
        has_force ==
            \/ /\ Contains(command, <<"-", "-", "f", "o", "r", "c", "e">>)
               /\ ~Contains(command, <<"-", "-", "f", "o", "r", "c", "e", "-",
                   "w", "i", "t", "h", "-", "l", "e", "a", "s", "e">>)
            \/ ShortForceFlag(command)
        force_command ==
            \E k \in 1..Len(_FORCE_FLAG_COMMANDS) :
                Contains(command, _FORCE_FLAG_COMMANDS[k])
    IN [k \in 1..Len(table) |-> table[k][2]]
       \o [k \in 1..Len(special) |-> special[k].message]
       \o (IF has_force /\ force_command THEN <<StrForceFlag>> ELSE <<>>)

\* JSON values as json.load returns them
JsonNull == [type |-> "null"]
JsonString(s) == [type |-> "string", value |-> s]
JsonNumber(n) == [type |-> "number", number |-> n]
JsonArray == [type |-> "array"]
JsonObject(fields) == [type |-> "object", fields |-> fields]

\* the AttributeError of a .get on a value that has none, passed on by
\* every later .get
JsonAttributeError == [type |-> "AttributeError"]

\* value.get(key, default): AttributeError for a value that is no dict
DictGet(value, key, default) ==
    IF value.type # "object" THEN JsonAttributeError
    ELSE IF key \in DOMAIN value.fields THEN value.fields[key]
    ELSE default

\* _read_command_from_stdin: tool_input.command of the JSON document on
\* stdin; None when stdin holds no JSON or a .get raises AttributeError
_read_command_from_stdin(stdin) ==
    LET tool_input == DictGet(stdin.data, "tool_input", JsonObject(<<>>))
        command == DictGet(tool_input, "command", JsonNull)
    IN IF ~stdin.json THEN JsonNull
       ELSE IF command.type = "AttributeError" THEN JsonNull
       ELSE command

\* sep.join(parts)
RECURSIVE JoinWith(_, _)
JoinWith(parts, sep) ==
    IF parts = <<>> THEN <<>>
    ELSE IF Len(parts) = 1 THEN parts[1]
    ELSE parts[1] \o sep \o JoinWith(Tail(parts), sep)

StrBlocked == <<"B", "L", "O", "C", "K", "E", "D">>
StrWarning == <<"W", "A", "R", "N", "I", "N", "G">>

\* _emit_ask: the JSON document written to stdout
_emit_ask(reason, blocked) ==
    [hookSpecificOutput |->
        [hookEventName |-> "PreToolUse",
         permissionDecision |-> "ask",
         permissionDecisionReason |->
             (IF blocked THEN StrBlocked ELSE StrWarning) \o <<":",
                 " ">> \o reason,
         additionalContext |->
             IF blocked
             THEN "This command is blocked by security policy. "
             ELSE "This command may be destructive. "]]

\* the mutant of dangerous_cmd_main: the warnings are not left out of a
\* blocked command's output
dangerous_cmd_main_WarnsToo(argv, sys_argv, stdin) ==
    LET args == IF argv.is_none THEN sys_argv ELSE argv.args
        command == IF args # <<>> THEN JsonString(args[1])
                   ELSE IF ~stdin.isatty THEN _read_command_from_stdin(stdin)
                   ELSE JsonNull
        blocked_msg == _check_blocked(command)
        warnings == _check_warned(command.value)
    IN IF command.type = "null" THEN [rc |-> 0, stdout |-> <<>>,
        raised |-> ""]
       ELSE IF blocked_msg.raised # ""
            THEN [rc |-> RcNone, stdout |-> <<>>,
                  raised |-> blocked_msg.raised]
       ELSE [rc |-> 0, raised |-> "",
             stdout |->
                 (IF blocked_msg.message # None
                  THEN <<_emit_ask(blocked_msg.message, TRUE)>> ELSE <<>>)
                 \o (IF warnings # <<>>
                     THEN <<_emit_ask(JoinWith(warnings, <<";", " ">>),
                         FALSE)>>
                     ELSE <<>>)]

\* main of dangerous_cmd.py: what it returns and writes to stdout, or the
\* exception that ends it
dangerous_cmd_main(argv, sys_argv, stdin) ==
    LET args == IF argv.is_none THEN sys_argv ELSE argv.args
        command == IF args # <<>> THEN JsonString(args[1])
                   ELSE IF ~stdin.isatty THEN _read_command_from_stdin(stdin)
                   ELSE JsonNull
        blocked_msg == _check_blocked(command)
        warnings == _check_warned(command.value)
    IN IF command.type = "null" THEN [rc |-> 0, stdout |-> <<>>,
        raised |-> ""]
       ELSE IF blocked_msg.raised # ""
            THEN [rc |-> RcNone, stdout |-> <<>>,
                  raised |-> blocked_msg.raised]
       ELSE IF blocked_msg.message # None
            THEN [rc |-> 0, raised |-> "",
                  stdout |-> <<_emit_ask(blocked_msg.message, TRUE)>>]
       ELSE IF warnings # <<>>
            THEN [rc |-> 0, raised |-> "",
                  stdout |-> <<_emit_ask(JoinWith(warnings, <<";", " ">>),
                      FALSE)>>]
       ELSE [rc |-> 0, stdout |-> <<>>, raised |-> ""]

(***************************************************************************)
(* Specification SpecHook: dangerous_cmd.main applied to command lines     *)
(* and to documents on stdin                                               *)
(***************************************************************************)

HookCommands ==
    { <<>>,
      <<"l", "s", " ", "-", "l", "a">>,
      <<"g", "i", "t", " ", "s", "t", "a", "t", "u", "s">>,
      <<"g", "i", "t", " ", "c", "h", "e", "c", "k", "o", "u", "t", " ", "m",
          "a", "i", "n">>,
      <<"g", "i", "t", " ", "c", "o", "m", "m", "i", "t", " ", "-", "m", " ",
          "n", "i", "c", "e">>,
      <<"g", "i", "t", " ", "c", "o", "m", "m", "i", "t", " ", "-", "m", " ",
          "x", " ", "-", "n", "a", "m", "e">>,
      <<"t", "a", "i", "l", " ", "-", "f", " ", "l", "o", "g">>,
      <<"g", "i", "t", " ", "r", "e", "s", "t", "o", "r", "e", " ", ".", "/",
          "f", "i", "l", "e">>,
      <<"g", "i", "t", " ", "c", "l", "e", "a", "n", " ", "-", "n">>,
      <<"g", "i", "t", " ", "b", "r", "a", "n", "c", "h", " ", "-", "D",
          "x">>,
      <<"r", "m", " ", "-", "r", "f", " ", "/">>,
      <<"g", "i", "t", " ", "c", "o", "m", "m", "i", "t", " ", "-", "-", "n",
          "o", "-", "v", "e", "r", "i", "f", "y", " ", "-", "m", " ", "x">>,
      <<"g", "i", "t", " ", "c", "o", "m", "m", "i", "t", " ", "-", "n", " ",
          "-", "m", " ", "x">>,
      <<"g", "i", "t", " ", " ", "c", "o", "m", "m", "i", "t", " ", "-", "a",
          "m", " ", "x", " ", "-", "n">>,
      <<"d", "d", " ", "i", "f", "=", "/", "d", "e", "v", "/", "z", "e", "r",
          "o", " ", "o", "f", "=", "/", "d", "e", "v", "/", "s", "d", "a">>,
      <<"r", "m", " ", "-", "r", "f", " ", "/", " ", "&", "&", " ", "g", "i",
          "t", " ", "p", "u", "s", "h", " ", "-", "-", "f", "o", "r", "c",
          "e">>,
      <<"g", "i", "t", " ", "c", "o", "m", "m", "i", "t", " ", "-", "-", "n",
          "o", "-", "v", "e", "r", "i", "f", "y", " ", "&", "&", " ", "g",
          "i", "t", " ", "r", "e", "s", "e", "t", " ", "-", "-", "h", "a",
          "r", "d">>,
      <<"g", "i", "t", " ", "c", "o", "m", "m", "i", "t", " ", "-", "n", " ",
          ";", " ", "c", "h", "m", "o", "d", " ", "-", "R", " ", "7", "7",
          "7", " ", ".">>,
      <<"r", "m", " ", "-", "r", "f", " ", ".", "/", "b", "u", "i", "l",
          "d">>,
      <<"c", "h", "m", "o", "d", " ", "-", "R", " ", "7", "7", "7", " ",
          ".">>,
      <<"c", "u", "r", "l", " ", "x", " ", "|", " ", "b", "a", "s", "h">>,
      <<"g", "i", "t", " ", "p", "u", "s", "h", " ", "-", "-", "f", "o", "r",
          "c", "e", "-", "w", "i", "t", "h", "-", "l", "e", "a", "s", "e">>,
      <<"g", "i", "t", " ", "p", "u", "s", "h", " ", "-", "-", "f", "o", "r",
          "c", "e">>,
      <<"g", "i", "t", " ", "p", "u", "s", "h", " ", "-", "f", " ", "o", "r",
          "i", "g", "i", "n">>,
      <<"d", "o", "c", "k", "e", "r", " ", "r", "m", " ", "-", "f", " ",
          "c">>,
      <<"g", "i", "t", " ", "r", "e", "s", "e", "t", " ", "-", "-", "h", "a",
          "r", "d", " ", "H", "E", "A", "D", "~", "1">>,
      <<"g", "i", "t", " ", "c", "h", "e", "c", "k", "o", "u", "t", " ",
          ".">>,
      <<"g", "i", "t", " ", "c", "h", "e", "c", "k", "o", "u", "t", " ", "-",
          "-", " ", ".">>,
      <<"g", "i", "t", " ", "c", "h", "e", "c", "k", "o", "u", "t", " ", ".",
          " ", "&", "&", " ", "l", "s">>,
      <<"g", "i", "t", " ", "r", "e", "s", "t", "o", "r", "e", " ", ".">>,
      <<"g", "i", "t", " ", "r", "e", "s", "t", "o", "r", "e", " ", "-", "-",
          "s", "t", "a", "g", "e", "d", " ", "-", "W", " ", ".", " ", ";">>,
      <<"g", "i", "t", " ", "c", "l", "e", "a", "n", " ", "-", "f", "d">>,
      <<"g", "i", "t", " ", "c", "l", "e", "a", "n", " ", "-", "x", "d",
          "f">>,
      <<"g", "i", "t", " ", "c", "l", "e", "a", "n", " ", "-", "-", "f", "o",
          "r", "c", "e">>,
      <<"g", "i", "t", " ", "b", "r", "a", "n", "c", "h", " ", "-", "D", " ",
          "o", "l", "d">>,
      <<"g", "i", "t", " ", "b", "r", "a", "n", "c", "h", " ", "x", " ", "-",
          "-", "d", "e", "l", "e", "t", "e", " ", " ", "-", "-", "f", "o",
          "r", "c", "e">>,
      <<"g", "i", "t", " ", "b", "r", "a", "n", "c", "h", " ", "-", "-", "f",
          "o", "r", "c", "e", " ", "-", "-", "d", "e", "l", "e", "t", "e",
          " ", "x">>,
      <<"r", "m", " ", "-", "r", "f", " ", ".", "/", "b", " ", "&", "&", " ",
          "g", "i", "t", " ", "p", "u", "s", "h", " ", "-", "-", "f", "o",
          "r", "c", "e">>,
      <<"r", "m", " ", "-", "r", "f", " ", "x", " ", "|", " ", "b", "a", "s",
          "h">>,
      <<"c", "h", "m", "o", "d", " ", "-", "R", " ", "7", "7", "7", " ", ".",
          " ", ";", " ", "g", "i", "t", " ", "r", "e", "s", "e", "t", " ",
          "-", "-", "h", "a", "r", "d">>,
      <<"g", "i", "t", " ", "r", "e", "s", "e", "t", " ", "-", "-", "h", "a",
          "r", "d", " ", "&", "&", " ", "g", "i", "t", " ", "c", "l", "e",
          "a", "n", " ", "-", "f">> }

\* stdin: a terminal, or a pipe holding text that is JSON or not
StdinPool ==
    LET Piped(data) == [isatty |-> FALSE, json |-> TRUE, data |-> data]
        ToolInput(value) == JsonObject([tool_input |-> value])
        Command(value) == ToolInput(JsonObject([command |-> value]))
    IN {[isatty |-> TRUE, json |-> FALSE], [isatty |-> FALSE, json |-> FALSE],
        Piped(JsonArray), Piped(JsonString(<<"l", "s">>)),
            Piped(JsonObject(<<>>)),
        Piped(ToolInput(JsonNull)), Piped(ToolInput(JsonString(<<"l",
            "s">>))),
        Piped(ToolInput(JsonObject(<<>>))), Piped(Command(JsonNull)),
        Piped(Command(JsonNumber(5)))}
       \cup {Piped(Command(JsonString(c))) : c \in HookCommands}

ArgvNone == [is_none |-> TRUE, args |-> <<>>]
Argv(args) == [is_none |-> FALSE, args |-> args]

HookInputs ==
    {[argv |-> Argv(<<c>>), sys_argv |-> <<>>, stdin |-> s] :
        c \in HookCommands,
        s \in {[isatty |-> TRUE, json |-> FALSE],
               [isatty |-> FALSE, json |-> FALSE]}}
    \cup {[argv |-> ArgvNone, sys_argv |-> <<c>>,
           stdin |-> [isatty |-> TRUE, json |-> FALSE]] : c \in HookCommands}
    \cup {[argv |-> a, sys_argv |-> <<>>, stdin |-> s] :
            a \in {ArgvNone, Argv(<<>>)}, s \in StdinPool}

HookInit ==
    /\ WorkflowIdle
    /\ pc = "dangerous_cmd"
    /\ fin \in HookInputs
    /\ fout = <<>>

DangerousCmdApply ==
    /\ pc = "dangerous_cmd"
    /\ fout' = dangerous_cmd_main(fin.argv, fin.sys_argv, fin.stdin)
    /\ pc' = "dangerous_cmd_done"
    /\ UNCHANGED <<fin, WorkflowVars>>

HookNext == DangerousCmdApply

SpecHook == HookInit /\ [][HookNext]_vars

\* the command main looks at: the first argument, else the one on stdin
HookCommand ==
    LET args == IF fin.argv.is_none THEN fin.sys_argv ELSE fin.argv.args
    IN IF args # <<>> THEN JsonString(args[1])
       ELSE IF fin.stdin.isatty \/ ~fin.stdin.json THEN JsonNull
       ELSE IF fin.stdin.data.type # "object" THEN JsonNull
       ELSE IF "tool_input" \notin DOMAIN fin.stdin.data.fields THEN JsonNull
       ELSE IF fin.stdin.data.fields.tool_input.type # "object" THEN JsonNull
       ELSE IF "command" \notin
                   DOMAIN fin.stdin.data.fields.tool_input.fields THEN JsonNull
       ELSE fin.stdin.data.fields.tool_input.fields.command

\* the messages of the blocked and of the warning patterns found in text
BlockedFound(text) ==
    {e[2] : e \in {b \in Range(BLOCKED_COMMANDS) : Contains(text, b[1])}}
    \cup {e.message : e \in {b \in Range(_SPECIAL_BLOCKS(text)) : b.found}}

WarningsFound(text) ==
    {e[2] : e \in {w \in Range(WARNED_COMMANDS) : Contains(text, w[1])}}
    \cup {e.message : e \in {w \in Range(_SPECIAL_WARNS(text)) : w.found}}
    \cup (IF /\ \/ /\ Contains(text, <<"-", "-", "f", "o", "r", "c", "e">>)
                   /\ ~Contains(text, <<"-", "-", "f", "o", "r", "c", "e",
                       "-", "w", "i", "t", "h", "-", "l", "e", "a", "s",
                       "e">>)
                \/ ShortForceFlag(text)
             /\ \E c \in Range(_FORCE_FLAG_COMMANDS) : Contains(text, c)
          THEN {StrForceFlag} ELSE {})

HookDone == pc = "dangerous_cmd_done"

Decision(k) == fout.stdout[k].hookSpecificOutput

\* the decisions main may write for a command that is text
HookOutputFor(text) ==
    IF BlockedFound(text) # {}
    THEN /\ Len(fout.stdout) = 1
         /\ Decision(1).permissionDecision = "ask"
         /\ StartsWith(Decision(1).permissionDecisionReason, StrBlocked)
    ELSE IF WarningsFound(text) # {}
    THEN /\ Len(fout.stdout) = 1
         /\ Decision(1).permissionDecision = "ask"
         /\ StartsWith(Decision(1).permissionDecisionReason, StrWarning)
         /\ \A w \in WarningsFound(text) :
                Contains(Decision(1).permissionDecisionReason, w)
         /\ Cardinality(WarningsFound(text)) > 1
                => Contains(Decision(1).permissionDecisionReason, <<";",
                    " ">>)
    ELSE fout.stdout = <<>>

\* C23: main always returns 0; a command with a blocked pattern gives
\* exactly one 'ask' decision whose reason starts with BLOCKED, even when
\* warning patterns are found too; a command with warning patterns only
\* gives one 'ask' decision whose reason starts with WARNING and holds every
\* warning found, joined by "; "; a command with no pattern, and a missing
\* or malformed command on stdin, gives no output
C23_HookAlwaysReturnsZero ==
    HookDone =>
        /\ fout.raised = "" /\ fout.rc = 0
        /\ IF IsStr(HookCommand) THEN HookOutputFor(HookCommand.value)
           ELSE fout.stdout = <<>>

\* the part of C23 that holds: every command that is text or is missing
C23_TextCommands ==
    HookDone /\ HookCommand.type \in {"string", "null"} =>
        /\ fout.raised = "" /\ fout.rc = 0
        /\ IF IsStr(HookCommand) THEN HookOutputFor(HookCommand.value)
           ELSE fout.stdout = <<>>

\* a command that is a number ends main with TypeError
C23_NumberCommandRaises ==
    HookDone /\ HookCommand.type = "number" =>
        fout.raised = "TypeError" /\ fout.stdout = <<>>

C23_BlockedAndWarned ==
    /\ HookDone /\ IsStr(HookCommand)
    /\ BlockedFound(HookCommand.value) # {}
    /\ WarningsFound(HookCommand.value) # {}

C23_TwoWarnings ==
    /\ HookDone /\ IsStr(HookCommand)
    /\ BlockedFound(HookCommand.value) = {}
    /\ Cardinality(WarningsFound(HookCommand.value)) > 1

(***************************************************************************)
(* hooks/format_stage.py: format the staged files and stage them again     *)
(***************************************************************************)

MaxStaged == 2

StrShfmt == <<"shfmt", "-w", "-i", "2", "-ci", "-bn">>
StrBiome == <<"biome", "check", "--write">>
StrClangFormat == <<"clang-format", "-i">>

\* _FORMATTERS.get(ext): the commands of an extension, <<>> for None
_FORMATTERS(ext) ==
    CASE ext = <<".", "p", "y">> -> << <<"ruff", "check", "--fix">>, <<"ruff",
        "format">> >>
      [] ext \in {<<".", "s", "h">>, <<".", "b", "a", "s",
          "h">>} -> <<StrShfmt>>
      [] ext = <<".", "m", "d">> -> << <<"markdownlint-cli2", "--fix">> >>
      [] ext \in {<<".", "t", "s">>, <<".", "t", "s", "x">>, <<".", "j",
          "s">>, <<".", "j", "s", "x">>, <<".", "j", "s", "o",
          "n">>} -> <<StrBiome>>
      [] ext = <<".", "t", "o", "m", "l">> -> << <<"taplo", "format">> >>
      [] ext = <<".", "r", "s">> -> << <<"rustfmt">> >>
      [] ext = <<".", "l", "u", "a">> -> << <<"stylua">> >>
      [] ext = <<".", "g", "o">> -> << <<"gofmt", "-w">> >>
      [] ext \in {<<".", "c">>, <<".", "c", "p", "p">>, <<".", "c", "c">>,
          <<".", "c", "x", "x">>, <<".", "h">>, <<".", "h", "p", "p">>} ->
             <<StrClangFormat>>
      [] OTHER -> <<>>

\* The working tree: the content of each path that is a file, None for a
\* path that is not there
IsFile(files, filepath) ==
    filepath \in DOMAIN files /\ files[filepath] # None

\* Path(filepath).suffix: from the last dot of the last component, when
\* that dot is neither its first nor its last character
Suffix(filepath) ==
    LET slashes == {i \in 1..Len(filepath) : filepath[i] = "/"}
        start == IF slashes = {} THEN 1
                 ELSE 1 + CHOOSE i \in slashes : \A j \in slashes : j <= i
        name == SubSeq(filepath, start, Len(filepath))
        dots == {i \in 1..Len(name) : name[i] = "."}
        last == CHOOSE i \in dots : \A j \in dots : j <= i
    IN IF dots # {} /\ 1 < last /\ last < Len(name)
       THEN SubSeq(name, last, Len(name)) ELSE <<>>

\* _git_staged_files: the lines of git diff's output that are not blank,
\* no file when git fails
_git_staged_files(git_diff) ==
    LET NotBlank(f) == Strip(f) # <<>>
    IN IF git_diff.returncode # 0 THEN <<>>
       ELSE SelectSeq(git_diff.stdout, NotBlank)

\* _detect_shell_by_shebang: the first line starts with "#!" and names a
\* shell, as "/bash" or as " bash"
_detect_shell_by_shebang(files, filepath) ==
    LET content == files[filepath]
        newline == Find(content, <<"\n">>, 1)
        line_end == IF newline = 0 THEN Len(content) ELSE newline
        first_line == SubSeq(content, 1,
            IF line_end > 128 THEN 128 ELSE line_end)
        shells == {<<"/", "s", "h">>, <<"/", "b", "a", "s", "h">>, <<"/", "z",
            "s", "h">>, <<"/", "a", "s", "h">>, <<"/", "d", "a", "s", "h">>}
    IN IF ~IsFile(files, filepath) THEN FALSE
       ELSE IF ~StartsWith(first_line, <<"#", "!">>) THEN FALSE
       ELSE \/ \E s \in shells : Contains(first_line, s)
            \/ \E s \in shells : Contains(first_line, <<" ">> \o Tail(s))

\* _file_hash: the SHA-256 digest of the content, which tells two contents
\* apart; None for a path that cannot be read
_file_hash(files, filepath) ==
    IF IsFile(files, filepath) THEN <<"sha256">> \o files[filepath] ELSE None

\* the commands main runs on a file
FormattersOf(files, filepath) ==
    LET formatters == _FORMATTERS(Suffix(filepath))
    IN IF formatters = <<>> /\ _detect_shell_by_shebang(files, filepath)
       THEN _FORMATTERS(<<".", "s", "h">>)
       ELSE formatters

StrFormattedMark == <<"#", " ", "f", "o", "r", "m", "a", "t", "t", "e", "d">>

\* What a formatter does to the file: nothing when it is not installed or
\* finds nothing to fix, else it writes the file's other form
FormatterEffects == {"not installed", "unchanged", "rewritten"}

Rewritten(content) ==
    IF Len(content) >= Len(StrFormattedMark)
       /\ SubSeq(content, Len(content) - Len(StrFormattedMark) + 1,
                 Len(content)) = StrFormattedMark
    THEN SubSeq(content, 1, Len(content) - Len(StrFormattedMark))
    ELSE content \o StrFormattedMark

\* _run_formatter: the file after one command; FileNotFoundError is
\* suppressed
_run_formatter(files, filepath, effect) ==
    IF effect = "rewritten"
    THEN [files EXCEPT ![filepath] = Rewritten(files[filepath])]
    ELSE files

\* "for cmd in formatters" from the c-th command on: one effect a command
RECURSIVE RunFormatters(_, _, _, _)
RunFormatters(files, filepath, effects, c) ==
    IF c > Len(effects) THEN files
    ELSE RunFormatters(_run_formatter(files, filepath, effects[c]), filepath,
                       effects, c + 1)

\* main's second loop from the k-th staged file on: the working tree and
\* the subprocess calls made
RECURSIVE FormatLoop(_, _, _, _, _)
FormatLoop(staged, k, files, effects, made) ==
    LET filepath == staged[k]
        formatters == FormattersOf(files, filepath)
        after_all == RunFormatters(files, filepath, effects[k], 1)
        runs == [c \in 1..Len(formatters) |->
                    [cmd |-> formatters[c], filepath |-> filepath]]
    IN IF k > Len(staged) THEN [files |-> files, calls |-> made]
       ELSE IF ~IsFile(files, filepath) \/ formatters = <<>>
            THEN FormatLoop(staged, k + 1, files, effects, made)
       ELSE FormatLoop(staged, k + 1, after_all, effects, made \o runs)

StrGitDiff ==
    <<"git", "diff", "--cached", "--name-only", "--diff-filter=ACM">>

\* _git_add: the subprocess call
_git_add(filepath) == [cmd |-> <<"git", "add">>, filepath |-> filepath]

\* the mutant of format_stage_main: the hashes are taken after formatting
format_stage_main_LateSnapshot(files, git_diff, effects) ==
    LET staged == _git_staged_files(git_diff)
        formatted == FormatLoop(staged, 1, files, effects, <<>>)
        hashes_before ==
            [f \in {staged[k] : k \in {j \in 1..Len(staged) :
                                          IsFile(files, staged[j])}} |->
                _file_hash(formatted.files, f)]
        HashesBeforeGet(f) ==
            IF f \in DOMAIN hashes_before THEN hashes_before[f] ELSE None
        Changed(f) ==
            /\ IsFile(formatted.files, f)
            /\ _file_hash(formatted.files, f) # HashesBeforeGet(f)
        adds == SelectSeq(staged, Changed)
    IN [rc |-> 0,
        calls |-> <<[cmd |-> StrGitDiff, filepath |-> None]>>
                  \o formatted.calls
                  \o [k \in 1..Len(adds) |-> _git_add(adds[k])],
        files |-> formatted.files]

\* main of format_stage.py: the value returned, the subprocess calls made
\* in order and the working tree left behind
format_stage_main(files, git_diff, effects) ==
    LET staged == _git_staged_files(git_diff)
        hashes_before ==
            [f \in {staged[k] : k \in {j \in 1..Len(staged) :
                                          IsFile(files, staged[j])}} |->
                _file_hash(files, f)]
        formatted == FormatLoop(staged, 1, files, effects, <<>>)
        HashesBeforeGet(f) ==
            IF f \in DOMAIN hashes_before THEN hashes_before[f] ELSE None
        Changed(f) ==
            /\ IsFile(formatted.files, f)
            /\ _file_hash(formatted.files, f) # HashesBeforeGet(f)
        adds == SelectSeq(staged, Changed)
    IN [rc |-> 0,
        calls |-> <<[cmd |-> StrGitDiff, filepath |-> None]>>
                  \o formatted.calls
                  \o [k \in 1..Len(adds) |-> _git_add(adds[k])],
        files |-> formatted.files]

(***************************************************************************)
(* Specification SpecFormat: format_stage.main applied to working trees    *)
(***************************************************************************)

\* The working tree main starts in: a Python file, a shell script, a
\* script without extension, a file no formatter knows and a staged path
\* that is gone
WorkingTree ==
    (<<"a", ".", "p", "y">> :> <<"x", " ", "=", " ", "1">>)
    @@ (<<"b", ".", "s", "h">> :> <<"#", "!", "/", "b", "i", "n", "/", "s",
        "h", "\n">> \o <<"e", "c", "h", "o", " ", "h", "i">>)
    @@ (<<"b", "i", "n", "/", "r", "u", "n">> :> <<"#", "!", "/", "u", "s",
        "r", "/", "b", "i", "n", "/", "e", "n", "v", " ", "b", "a", "s",
        "h">>)
    @@ (<<"d", ".", "c", "s", "v">> :> <<"a", ",", "b">>)
    @@ (<<"g", "o", "n", "e", ".", "p", "y">> :> None)

\* lists of distinct staged paths of a given length
StagedOfLength(n) ==
    {s \in [1..n -> DOMAIN WorkingTree] :
        \A i, j \in 1..n : i # j => s[i] # s[j]}

\* one effect for every formatter run on every staged file
EffectsFor(s) ==
    LET Runs(f) == IF IsFile(WorkingTree, f)
                   THEN Len(FormattersOf(WorkingTree, f)) ELSE 0
    IN {e \in [1..Len(s) ->
                  UNION {[1..n -> FormatterEffects] : n \in 0..2}] :
           \A k \in 1..Len(s) : Len(e[k]) = Runs(s[k])}

FormatInputs ==
    UNION {{[files |-> WorkingTree, effects |-> e,
             git_diff |-> [returncode |-> r, stdout |-> s \o blank]] :
               r \in {0, 128}, blank \in {<<>>, <<<<" ">>>>},
               e \in EffectsFor(s)} :
           s \in UNION {StagedOfLength(n) : n \in 0..MaxStaged}}

\* the paths main was given: none when git failed
StagedPaths == Range(_git_staged_files(fin.git_diff))

GitAdds(filepath) ==
    Len(SelectSeq(fout.calls, LAMBDA c : c = _git_add(filepath)))

\* a staged path that is a file whose hash is not the one it had before
\* the formatters ran
Modified(filepath) ==
    /\ filepath \in StagedPaths
    /\ IsFile(fout.files, filepath)
    /\ _file_hash(fout.files, filepath) # _file_hash(fin.files, filepath)

FormatDone == pc = "format_stage_done"

FormatInit ==
    /\ WorkflowIdle
    /\ pc = "format_stage"
    /\ fin \in FormatInputs
    /\ fout = <<>>

FormatStageApply ==
    /\ pc = "format_stage"
    /\ fout' = format_stage_main(fin.files, fin.git_diff, fin.effects)
    /\ pc' = "format_stage_done"
    /\ UNCHANGED <<fin, WorkflowVars>>

FormatNext == FormatStageApply

SpecFormat == FormatInit /\ [][FormatNext]_vars

\* C24: main returns 0 and runs git add exactly for the staged paths that
\* are files whose content hash differs from the one taken before the
\* formatters ran; an unchanged file, a staged path that is no file and a
\* path that is not staged are never added
C24_RestagesExactlyModified ==
    FormatDone =>
        /\ fout.rc = 0
        /\ \A f \in DOMAIN WorkingTree :
               GitAdds(f) = IF Modified(f) THEN 1 ELSE 0
        /\ \A k \in 1..Len(fout.calls) :
               fout.calls[k].cmd = <<"git", "add">>
                   => fout.calls[k].filepath \in StagedPaths

\* one staged file was rewritten and added, another was left alone
C24_Witness ==
    /\ FormatDone
    /\ \E f, g \in StagedPaths :
           /\ GitAdds(f) = 1
           /\ IsFile(fout.files, g) /\ GitAdds(g) = 0

\* a file rewritten twice into its first form is not added; a staged
\* path that is gone is not added
C24_RevertedWitness ==
    /\ FormatDone
    /\ \E f \in StagedPaths :
           /\ fin.effects[1] = <<"rewritten", "rewritten">>
           /\ f = _git_staged_files(fin.git_diff)[1]
           /\ Len(FormattersOf(fin.files, f)) = 2
           /\ GitAdds(f) = 0
    /\ \E g \in StagedPaths : ~IsFile(fin.files, g)

(***************************************************************************)
(* generate.py: the tool configs generated from the exception registry     *)
(***************************************************************************)

\* The configs _generate_to_dir writes, in its order; each is written when
\* its base config is found or the registry has entries for it
ConfigNames ==
    <<"ruff.toml", "biome.json", ".markdownlint.jsonc", ".codespellrc",
      ".suppression-allowlist">>

BaseConfigNames == {"ruff.toml", "biome.json", ".markdownlint.jsonc"}

\* the content a generator writes, and a project file written before
GeneratedContent(name) == <<"generated", name>>
StaleContent(name) == <<"old", name>>
NoFile == <<"no file">>

\* whether _generate_to_dir calls the generator of a config
Wanted(registry, bases, name) ==
    CASE name \in BaseConfigNames -> name \in bases
      [] name = ".codespellrc" -> registry.codespell
      [] name = ".suppression-allowlist" -> registry.inline_suppressions

\* _generate_to_dir from the k-th config on: the names generated, the files
\* written into output_dir and the steps taken; a generator that raises
\* ends it
RECURSIVE GenerateFrom(_, _, _, _, _)
GenerateFrom(registry, bases, failing, k, done) ==
    LET name == ConfigNames[k]
        step == [op |-> "generate", name |-> name, to |-> "output_dir"]
    IN IF k > Len(ConfigNames) THEN done
       ELSE IF ~Wanted(registry, bases, name)
            THEN GenerateFrom(registry, bases, failing, k + 1, done)
       ELSE IF name = failing
            THEN [done EXCEPT !.error = TRUE,
                              !.steps = @ \o <<[step EXCEPT !.op = "raise"]>>]
       ELSE GenerateFrom(registry, bases, failing, k + 1,
                         [done EXCEPT !.generated = Append(@, name),
                                      !.steps = Append(@, step)])

_generate_to_dir(registry, bases, failing) ==
    GenerateFrom(registry, bases, failing, 1,
                 [error |-> FALSE, generated |-> <<>>, steps |-> <<>>])

\* _load_registry: the registry, or None with the error printed
_load_registry(registry) ==
    CASE registry.status = "missing" ->
             [registry |-> NoMatch, stderr |-> <<"not found">>]
      [] registry.status = "invalid" ->
             [registry |-> NoMatch, stderr |-> <<"Error loading">>]
      [] registry.status = "validation errors" ->
             [registry |-> NoMatch, stderr |-> <<"Validation errors">>]
      [] OTHER -> [registry |-> registry, stderr |-> <<>>]

\* _check_freshness: every generated config is in the project with the
\* generated content; nothing is written outside the temporary directory
_check_freshness(registry, bases, failing, project) ==
    LET made == _generate_to_dir(registry, bases, failing)
        missing == SelectSeq(made.generated, LAMBDA n : project[n] = NoFile)
        stale == SelectSeq(made.generated,
                           LAMBDA n : /\ project[n] # NoFile
                                      /\ project[n] # GeneratedContent(n))
    IN IF made.error
       THEN [returned |-> "raised", project |-> project, steps |-> made.steps,
             stdout |-> <<>>, stderr |-> <<>>]
       ELSE IF stale = <<>> /\ missing = <<>>
            THEN [returned |-> "True", project |-> project,
                  steps |-> made.steps,
                  stdout |-> <<"All generated configs are up to date.">>,
                  stderr |-> <<>>]
       ELSE [returned |-> "False", project |-> project, steps |-> made.steps,
             stdout |-> <<>>,
             stderr |-> (IF missing # <<>> THEN <<"Missing">> \o missing
                         ELSE <<>>)
                        \o (IF stale # <<>> THEN <<"Stale">> \o stale
                            ELSE <<>>)
                        \o <<"Run ai-guardrails-generate">>]

StrPyproject == "pyproject.toml"

\* shutil.move of every generated name into the project, in order
Moved(project, names) ==
    [n \in DOMAIN project |->
        IF n \in Range(names) THEN GeneratedContent(n) ELSE project[n]]

MoveSteps(names) ==
    [k \in 1..Len(names) |->
        [op |-> "move", name |-> names[k], to |-> "project"]]

\* the mutant of run_generate_configs: what was generated is moved also
\* when a generator raised
run_generate_configs_MovesPartial(env, dry_run, check) ==
    LET loaded == _load_registry(env.registry)
        registry == loaded.registry
        made == _generate_to_dir(registry, env.bases, env.failing)
    IN IF registry = NoMatch
       THEN [returned |-> "False", project |-> env.project, steps |-> <<>>,
             stdout |-> <<>>, stderr |-> loaded.stderr]
       ELSE [returned |-> IF made.error THEN "False" ELSE "True",
             project |-> Moved(env.project, made.generated),
             steps |-> made.steps \o MoveSteps(made.generated),
             stdout |-> made.generated, stderr |-> <<>>]

\* run_generate_configs: the value returned ("raised" when an exception
\* ends it), the project's files afterwards, and the steps taken in order
run_generate_configs(env, dry_run, check) ==
    LET loaded == _load_registry(env.registry)
        registry == loaded.registry
        made == _generate_to_dir(registry, env.bases, env.failing)
        moved == Moved(env.project, made.generated)
        merge == moved[StrPyproject] # NoFile /\ registry.pyright
        merge_step == [op |-> "generate", name |-> StrPyproject,
                       to |-> "project"]
    IN IF registry = NoMatch
       THEN [returned |-> "False", project |-> env.project, steps |-> <<>>,
             stdout |-> <<>>, stderr |-> loaded.stderr]
       ELSE IF dry_run
            THEN [returned |-> "True", project |-> env.project,
                  steps |-> <<>>, stdout |-> <<"Registry is valid.">>,
                  stderr |-> <<>>]
       ELSE IF check
            THEN _check_freshness(registry, env.bases, env.failing,
                                  env.project)
       ELSE IF made.error
            THEN [returned |-> "False", project |-> env.project,
                  steps |-> made.steps, stdout |-> <<>>,
                  stderr |-> <<"Error during config generation">>]
       ELSE IF merge /\ env.failing = StrPyproject
            THEN [returned |-> "raised", project |-> moved,
                  steps |-> made.steps \o MoveSteps(made.generated)
                            \o <<[merge_step EXCEPT !.op = "raise"]>>,
                  stdout |-> made.generated, stderr |-> <<>>]
       ELSE [returned |-> "True",
             project |->
                 IF merge
                 THEN [moved EXCEPT ![StrPyproject] =
                                        GeneratedContent(StrPyproject)]
                 ELSE moved,
             steps |-> made.steps \o MoveSteps(made.generated)
                       \o (IF merge THEN <<merge_step>> ELSE <<>>),
             stdout |-> made.generated
                        \o (IF merge THEN <<"pyproject.toml [tool.pyright]">>
                            ELSE <<>>)
                        \o <<"Configs generated">>,
             stderr |-> <<>>]

(***************************************************************************)
(* Specification SpecGenerate: run_generate_configs applied to projects    *)
(***************************************************************************)

\* the registry file: missing, unreadable, invalid, or valid with or
\* without entries for codespell, inline suppressions and pyright
Registries ==
    {[status |-> s, codespell |-> FALSE, inline_suppressions |-> FALSE,
      pyright |-> FALSE] : s \in {"missing", "invalid", "validation errors"}}
    \cup {[status |-> "valid", codespell |-> c, inline_suppressions |-> i,
           pyright |-> p] : c, i, p \in BOOLEAN}

\* the project's files before the call: the configs all missing, all out
\* of date or all as generated; pyproject.toml there or not
Projects ==
    {[n \in Range(ConfigNames) \cup {StrPyproject} |->
         IF n = StrPyproject THEN (IF pyproject THEN StaleContent(n) ELSE NoFile)
         ELSE CASE configs = "missing" -> NoFile
                [] configs = "stale" -> StaleContent(n)
                [] configs = "fresh" -> GeneratedContent(n)] :
        configs \in {"missing", "stale", "fresh"}, pyproject \in BOOLEAN}

\* the generator that raises, "" when none does
Failing == {""} \cup Range(ConfigNames) \cup {StrPyproject}

GenerateInputs ==
    {[env |-> [registry |-> r, bases |-> b, failing |-> f, project |-> p],
      dry_run |-> d, check |-> c] :
        r \in Registries, b \in SUBSET BaseConfigNames, f \in Failing,
        p \in Projects, d \in BOOLEAN, c \in BOOLEAN}

GenerateInit ==
    /\ WorkflowIdle
    /\ pc = "run_generate_configs"
    /\ fin \in GenerateInputs
    /\ fout = <<>>

RunGenerateConfigsApply ==
    /\ pc = "run_generate_configs"
    /\ fout' = run_generate_configs(fin.env, fin.dry_run, fin.check)
    /\ pc' = "run_generate_configs_done"
    /\ UNCHANGED <<fin, WorkflowVars>>

GenerateNext == RunGenerateConfigsApply

SpecGenerate == GenerateInit /\ [][GenerateNext]_vars

GenerateDone == pc = "run_generate_configs_done"

StepsOf(op) == {k \in 1..Len(fout.steps) : fout.steps[k].op = op}

\* a generator raised
GenerationError == StepsOf("raise") # {}

\* a generator of _generate_to_dir raised
ConfigGenerationError ==
    \E k \in StepsOf("raise") : fout.steps[k].to = "output_dir"

ReadOnlyMode == fin.dry_run \/ fin.check

\* C25 as stated: configs are moved into the project only after every
\* generator has succeeded, so when generation raises an error the call
\* returns False and no project file is created or modified; dry-run and
\* check modes write no project file
C25_Original_EveryGeneratorFirst ==
    GenerateDone =>
        /\ \A m \in StepsOf("move") :
               \A g \in StepsOf("generate") \cup StepsOf("raise") : g < m
        /\ GenerationError /\ ~ReadOnlyMode =>
               fout.returned = "False" /\ fout.project = fin.env.project
        /\ ReadOnlyMode => fout.project = fin.env.project

\* C25: configs are moved into the project only after every generator of
\* _generate_to_dir has written its file to the temporary directory, so
\* when one of them raises the call returns False and no project file is
\* created or modified; dry-run and check modes write no project file; the
\* pyright settings are merged into pyproject.toml after the move
C25_AtomicConfigs ==
    GenerateDone =>
        /\ \A m \in StepsOf("move") :
               /\ ~ConfigGenerationError
               /\ \A g \in StepsOf("generate") :
                      fout.steps[g].to = "output_dir" => g < m
        /\ ConfigGenerationError /\ ~ReadOnlyMode =>
               fout.returned = "False" /\ fout.project = fin.env.project
        /\ ReadOnlyMode => fout.project = fin.env.project
        /\ \A g \in StepsOf("generate") \cup StepsOf("raise") :
               fout.steps[g].to = "project" =>
                   \A m \in StepsOf("move") : m < g

\* a generator raised after another had written its config, in the mode
\* that writes, with older configs in the project
C25_Witness ==
    /\ GenerateDone /\ ~ReadOnlyMode
    /\ ConfigGenerationError
    /\ \E g \in StepsOf("generate") : fout.steps[g].to = "output_dir"
    /\ \E n \in Range(ConfigNames) : fin.env.project[n] = StaleContent(n)
    /\ fout.returned = "False"

\* the pyright merge raised after configs had been moved
C25_PyrightRaisedWitness ==
    /\ GenerateDone
    /\ fout.returned = "raised"
    /\ StepsOf("move") # {}
    /\ fout.project # fin.env.project

\* check mode found stale configs and dry-run passed with stale configs
C25_ReadOnlyWitness ==
    /\ GenerateDone /\ ReadOnlyMode
    /\ fin.env.registry.status = "valid"
    /\ \E n \in Range(ConfigNames) : fin.env.project[n] = StaleContent(n)
    /\ fout.steps # <<>>

====
